---- MODULE Spec2Model ----
(***************************************************************************)
(* SMY02 signal generator control: the controller's command verification  *)
(* (src/src/smy02_controller.py) and the playlist hopping schedulers of   *)
(* the Tk front end (src/smy02_gui.py) and the Qt front end               *)
(* (src/qt_gui.py).                                                        *)
(*                                                                         *)
(* Controller methods run under the controller's re-entrant I/O lock, so  *)
(* one call is in progress at a time; a call advances one instrument      *)
(* write or query per step, and the instrument's reaction to each (write  *)
(* raises or not, *ESR? answer or timeout) is chosen by the environment.  *)
(* Spec is the controller driven by arbitrary callers (gui = "none").     *)
(*                                                                         *)
(* HopSpec is one front end (gui = "tk" or "qt") with its playlist and    *)
(* hopping scheduler: the Tk worker thread advances one statement group   *)
(* per step, the Qt timer slot runs _hop_once as one step. The outcome of *)
(* each controller call a front end makes is chosen by the environment;   *)
(* hop_calls records how many such calls the last step made.              *)
(***************************************************************************)
EXTENDS Integers, Sequences, FiniteSets, TLC

\* ------------------------------------------------------------------ bounds
\* Longest playlist the hopping model builds.
MaxPlaylist == 2

\* Hopping worker threads that can be alive together.
MaxWorkers == 2

\* The counters of FM initialization sequences stop counting here.
MaxInits == 3

\* Threads calling into one controller at the same time.
MaxThreads == 2

\* Device-state refresh threads that can be alive at the same time.
MaxRefreshers == 2

\* Sweep panel: start and stop within 1..MaxSweepMHz MHz, steps of up to
\* MaxSweepStep MHz, level blocks of up to MaxToggle points; the live
\* playlist holds at most MaxListLen entries in the sweep and list models.
MaxSweepMHz == 4
MaxSweepStep == 2
MaxToggle == 2
MaxListLen == 6

\* Playlist files hold at most MaxFileRows rows.
MaxFileRows == 2

\* --------------------------------------------------------- program values
\* get_esr() returning None (query failed or timed out).
NoEsr == -1

\* self.instrument.timeout, in ms: set by connect, by get_device_state and
\* by get_esr.
ConnectTimeout == 5000
StateTimeout == 1000
EsrTimeout == 500

\* Variant: only the plain command-error code is accepted.
BenignCodesShort == {32}

\* Status codes enable_output accepts as non-fatal.
BenignCodes == {32, 53}

\* Event-status answers the instrument gives: clean, execution error,
\* command error, command error with further bits.
Codes == {0, 16, 32, 53}

EsrResults == Codes \cup {NoEsr}

\* *IDN? answers, as the list of comma-separated fields after strip().
IdnSmy == <<"Rhode&Schwarz", "SMY02", "123456", "1.0">>
IdnGeneric == <<"ACME", "SG100", "1", "1.0">>
IdnBare == <<"smy02">>
IdnAnswers == {IdnSmy, IdnGeneric, IdnBare}

\* self.idn = "" before any answer was stored.
IdnEmpty == <<"">>

Frequencies == {144000000, 1000000000}
Amplitudes == {-20, 10}
Deviations == {5000, 6250}

\* str.upper() on the field values that occur.
Upper(s) == IF s = "smy02" THEN "SMY02" ELSE s

\* "SMY02" in s.upper(), for one comma-free field.
HasSMY02(s) == Upper(s) = "SMY02"

\* Variant: only the model field is looked at.
IsSmy02ModelOnly(m, i) == HasSMY02(m)

\* is_smy02 = "SMY02" in model.upper() or "SMY02" in idn.upper()
IsSmy02(m, i) == HasSMY02(m) \/ \E k \in 1..Len(i) : HasSMY02(i[k])

\* Variant: the first field is taken for the model.
ModelOfFirstField(parts) == IF Len(parts) > 1 THEN parts[1] ELSE "Unknown"

\* parts[1] if len(parts) > 1 else "Unknown"
ModelOf(parts) == IF Len(parts) > 1 THEN parts[2] ELSE "Unknown"

\* f"RF {int(frequency)}"
RfCmd(f) == "RF " \o ToString(f)

\* f"LEVEL {amplitude}"
LevelCmd(a) == "LEVEL " \o ToString(a)

\* The commands tests/test_controller.py expects: "FREQ 1000000000.0" for
\* set_frequency(1e9), "POW 10" for set_amplitude(10).
FreqCmd(f) == "FREQ " \o ToString(f) \o ".0"
PowCmd(a) == "POW " \o ToString(a)

\* f"FM {int(deviation)}"
FmCmd(d) == "FM " \o ToString(d)

\* f"{float(deviation):.3E}"
Sci3(d) ==
    CASE d = 3125 -> "3.125E+03"
      [] d = 5000 -> "5.000E+03"
      [] d = 6250 -> "6.250E+03"
      [] d = 12500 -> "1.250E+04"
      [] OTHER -> "?"

\* ------------------------------------------------------ candidate tables
EnableCandidates(smy) ==
    IF smy THEN <<"OUTP ON">>
    ELSE <<"OUTP ON", "OUTP:STAT ON", "OUTPON", "LEVEL:ON", "RF:ON">>

DisableCmds == <<"OUTP OFF", "LEVEL:OFF">>

FmInitCmds == <<"FM:INT 1.000E+3", "AF 1000", "FM:ON">>
FmSwitchCmds == <<"AM:OFF", "FM:ON">>
FmPreCmds == <<"FM:INT 1.000E+3", "AF 1000">>

DeviationCmds(d) ==
    << FmCmd(d),
       "FM:DEV " \o ToString(d),
       "FM:DEV " \o Sci3(d),
       "FM:DEVIATION " \o ToString(d),
       "FM:INT:DEV " \o ToString(d) >>

AmCmdsSmy == <<"FM:OFF", "AM:ON">>
AmCmdsGeneric == <<"FM:OFF", "AM:ON", "AM ON", "AM:STAT ON">>

LfoFreqCandidates(f) ==
    << "LFO:FREQ " \o ToString(f),
       "SOUR:LFO:FREQ " \o ToString(f),
       "SOUR:MOD:LFO:FREQ " \o ToString(f) >>
EnableLfoCandidates ==
    <<"LFO:STAT ON", "LFO:STATE ON", "SOUR:LFO:STAT ON", "SOUR:MOD:LFO:STAT ON">>
DisableLfoCandidates ==
    <<"LFO:STAT OFF", "LFO:STATE OFF", "SOUR:LFO:STAT OFF", "SOUR:MOD:LFO:STAT OFF">>

LfoFrequencies == {1000}

\* ------------------------------------------------------------------ state
VARIABLES
    \* SMY02Controller fields
    instrument,        \* TRUE when self.instrument is a handle, FALSE when None
    idn,               \* self.idn, as its comma-separated fields
    model,             \* self.model
    fm_initialized,    \* self._fm_initialized
    modulation_mode,   \* self._modulation_mode: "None", "FM", "AM"
    \* the controller call in progress (or the last one that returned)
    op,                \* method name, "none" before the first call
    pc,                \* position inside the method, "done" once it returned
    arg,               \* the call's numeric argument (0 when it has none)
    cands,             \* the command list the method is walking
    ci,                \* 1-based index of the command in hand
    last_esr,          \* the latest get_esr() result of this call
    deviation_set,     \* set_modulation_fm's local flag
    ret,               \* "True" / "False" once returned, "-" while running
    \* what the call did on the link
    wire,              \* commands and queries handed to the instrument, in order
    esrs,              \* get_esr() results of this call, in order
    werr,              \* number of writes of this call that raised
    mode0,             \* modulation_mode when the call was entered
    init0,             \* fm_initialized when the call was entered
    initsNoTrip,       \* full FM init sequences (FM:INT, AF, FM:ON) written on
                       \* this connection since the last FM -> AM switch
    inits_smy,         \* those the SMY02 branch wrote on this connection
    \* the front end (SMY02GUI on Tk, SMY02QtGUI on Qt) and its scheduler
    gui,               \* "tk" or "qt"; "none" when the controller is used alone
    connected,         \* self.connected
    has_controller,    \* self.controller is not None
    transmitting,      \* self.transmitting
    playlist,          \* self.playlist, the live list
    playlist_running,  \* self.playlist_running
    current_playlist_index,  \* self.current_playlist_index / self.current_idx (0-based)
    active_hop_playlist,     \* Tk: the snapshot; <<>> stands for None
    workers,           \* Tk: the hopping threads, by slot
    timer_active,      \* Qt: hop_timer is running
    hop_last_bw,       \* Qt: self._hop_last_bw
    auto_mod,          \* Qt: chk_auto_mod is checked
    hop_calls,         \* device-setting calls made by the last front-end step
    hop_log,           \* those calls, in order: [call, arg, res]
    hop_error,         \* exception the last front-end step raised, else "none"
    enable_failed,     \* enable_output has failed in the session in progress
    hop_prev_bw,       \* Qt: profile of the previous cycle's entry, "None"
                       \* before the first cycle of a session
    hop_prev_auto,     \* Qt: the previous cycle ran with auto-mod checked
    last,              \* the handler that ran last ("worker": a thread step)
    \* threads inside controller methods
    io_lock,           \* self._io_lock (RLock): owning thread (0: free), depth
    threads,           \* per calling thread: method, position, loop index,
                       \* and the old_timeout local of get_esr / get_device_state
    timeout,           \* self.instrument.timeout in ms (0: no handle yet)
    \* SMY02GUI's device-state poller
    state_refresh_in_progress,  \* self.state_refresh_in_progress
    state_refresh_job, \* self.state_refresh_job is not None
    refresh_timer,     \* the 3-second after() callback is pending in Tk
    refreshers,        \* the refresh threads, by slot
    after_queue,       \* callbacks the threads posted with root.after(0, ...)
    \* the panels and the list builders
    panel,             \* freq_var / level_var / bw_var (freq_mhz, level_dbm, _selected_bw)
    sweep_panel,       \* the sweep controls
    forward,           \* _generate_sweep_playlist: the forward list it built last
    generated,         \* ... and the entries it put into the playlist
    dialog,            \* the message box the last handler showed, "none" if none
    \* the instrument's FM deviation, followed in the bandwidth model
    device_fm,         \* the deviation of the last set_modulation_fm that
                       \* returned True (0: none yet)
    band_skip          \* the profile whose bandwidth step the scheduler cycle
                       \* that ran last skipped, "None" when it skipped none

ctrlVars == <<instrument, idn, model, fm_initialized, modulation_mode>>
callVars == <<op, pc, arg, cands, ci, last_esr, deviation_set, ret>>
linkVars == <<wire, esrs, werr, mode0, init0>>
initVars == <<initsNoTrip, inits_smy>>
hopVars == <<gui, connected, has_controller, transmitting, playlist,
             playlist_running, current_playlist_index, active_hop_playlist,
             workers, timer_active, hop_last_bw, auto_mod, hop_calls,
             hop_log, hop_error, enable_failed, hop_prev_bw, hop_prev_auto,
             last>>
lockVars == <<io_lock, threads, timeout>>
pollVars == <<state_refresh_in_progress, state_refresh_job, refresh_timer,
              refreshers, after_queue>>
listVars == <<panel, sweep_panel, forward, generated, dialog>>
bandVars == <<device_fm, band_skip>>
restVars == <<hopVars, lockVars, pollVars, listVars, bandVars>>
vars == <<ctrlVars, callVars, linkVars, initVars, hopVars, lockVars, pollVars,
          listVars, bandVars>>

is_smy02 == IsSmy02(model, idn)

Idle == pc = "done"

\* Commands of the wire that are neither *CLS nor a query.
RECURSIVE Payload(_)
Payload(w) ==
    IF w = <<>> THEN <<>>
    ELSE IF Head(w) \in {"*CLS", "*ESR?", "*IDN?"} THEN Payload(Tail(w))
    ELSE <<Head(w)>> \o Payload(Tail(w))

\* ---------------------------------------------------------------- __init__
\* A hopping thread slot with no thread in it.
\* hop_playlist, rf_enable_failed and last_bw are the thread's locals; n is
\* the number of cycles it has begun, modulo the length of hop_playlist;
\* prev_bw is the profile of the entry of its previous cycle; stopped says
\* that _stop_hopping ran on the session while the thread was alive.
NoWorker ==
    [pc |-> "none", hop_playlist |-> <<>>, rf_enable_failed |-> FALSE,
     last_bw |-> "None", n |-> 0, prev_bw |-> "None", stopped |-> FALSE]

\* SMY02GUI.__init__ / SMY02QtGUI.__init__
GuiInit ==
    /\ connected = FALSE
    /\ has_controller = FALSE
    /\ transmitting = FALSE
    /\ playlist = <<>>
    /\ playlist_running = FALSE
    /\ current_playlist_index = 0
    /\ active_hop_playlist = <<>>
    /\ workers = [w \in 1..MaxWorkers |-> NoWorker]
    /\ timer_active = FALSE
    /\ hop_last_bw = "None"
    /\ auto_mod = FALSE
    /\ hop_calls = 0
    /\ hop_log = <<>>
    /\ hop_error = "none"
    /\ enable_failed = FALSE
    /\ hop_prev_bw = "None"
    /\ hop_prev_auto = FALSE
    /\ last = "init"

\* SMY02Controller.__init__
CtrlInit ==
    /\ instrument = FALSE
    /\ idn = IdnEmpty
    /\ model = ""
    /\ fm_initialized = FALSE
    /\ modulation_mode = "None"
    /\ op = "none"
    /\ pc = "done"
    /\ arg = 0
    /\ cands = <<>>
    /\ ci = 1
    /\ last_esr = NoEsr
    /\ deviation_set = FALSE
    /\ ret = "-"
    /\ wire = <<>>
    /\ esrs = <<>>
    /\ werr = 0
    /\ mode0 = "None"
    /\ init0 = FALSE
    /\ initsNoTrip = 0
    /\ inits_smy = 0

\* No thread is inside the controller.
NoThread == [op |-> "none", pc |-> "idle", qi |-> 0, old_timeout |-> 0]

LockInit ==
    /\ io_lock = [owner |-> 0, count |-> 0]
    /\ threads = [t \in 1..MaxThreads |-> NoThread]
    /\ timeout = 0

\* SMY02GUI.__init__: the poller's fields; no thread, nothing posted.
PollInit ==
    /\ state_refresh_in_progress = FALSE
    /\ state_refresh_job = FALSE
    /\ refresh_timer = FALSE
    /\ refreshers = [r \in 1..MaxRefreshers |-> "none"]
    /\ after_queue = <<>>

\* The sweep controls as constructed. Sweep frequencies and steps are whole
\* numbers of tenths of a MHz, levels are dBm; start and stop are scaled
\* down from 108 and 155 MHz to keep the lists short.
SweepDefaults ==
    [start |-> 10, stop |-> 10 * MaxSweepMHz, step |-> 10, base_level |-> -20,
     alt_enabled |-> FALSE, alt_level |-> -30, toggle_every |-> 1,
     reverse |-> FALSE, replace |-> TRUE]

\* freq_var = 144.0, level_var = -20.0, bw_var = "12.5 kHz"
PanelDefaults == [frequency |-> 144, level |-> -20, bandwidth |-> "12.5 kHz"]

ListInit ==
    /\ panel = PanelDefaults
    /\ sweep_panel = SweepDefaults
    /\ forward = <<>>
    /\ generated = <<>>
    /\ dialog = "none"

\* No set_modulation_fm has been made, no cycle has run.
BandInit ==
    /\ device_fm = 0
    /\ band_skip = "None"

RestInit == LockInit /\ PollInit /\ ListInit /\ BandInit

Init == CtrlInit /\ GuiInit /\ RestInit /\ gui = "none"

\* Entering a method: the call record is reset, the link log starts empty.
Enter(name, a, list, first) ==
    /\ Idle
    /\ op' = name
    /\ arg' = a
    /\ cands' = list
    /\ ci' = 1
    /\ last_esr' = NoEsr
    /\ deviation_set' = FALSE
    /\ wire' = <<>>
    /\ esrs' = <<>>
    /\ werr' = 0
    /\ mode0' = modulation_mode
    /\ init0' = fm_initialized
    /\ IF instrument
       THEN pc' = first /\ ret' = "-"
       ELSE pc' = "done" /\ ret' = "False"
    /\ UNCHANGED restVars

Return(r) == pc' = "done" /\ ret' = r

Sent(cmd) == wire' = Append(wire, cmd)

\* ------------------------------------------------------------------ connect
connect ==
    /\ Idle
    /\ op' = "connect"
    /\ arg' = 0 /\ cands' = <<>> /\ ci' = 1 /\ last_esr' = NoEsr
    /\ deviation_set' = FALSE
    /\ esrs' = <<>>
    /\ mode0' = modulation_mode /\ init0' = fm_initialized
    /\ UNCHANGED <<fm_initialized, modulation_mode, restVars>>
    /\ \/ \* the resource opens and *IDN? is answered
          \E answer \in IdnAnswers :
            /\ instrument' = TRUE
            /\ idn' = answer
            /\ model' = ModelOf(answer)
            /\ wire' = <<"*IDN?">> /\ werr' = 0
            /\ initsNoTrip' = 0 /\ inits_smy' = 0
            /\ Return("True")
       \/ \* the resource opens, the *IDN? query raises
          /\ instrument' = TRUE
          /\ UNCHANGED <<idn, model>>
          /\ wire' = <<"*IDN?">> /\ werr' = 1
          /\ initsNoTrip' = 0 /\ inits_smy' = 0
          /\ Return("False")
       \/ \* open_resource raises
          /\ UNCHANGED <<instrument, idn, model, initVars>>
          /\ wire' = <<>> /\ werr' = 1
          /\ Return("False")

\* --------------------------------------------------------------- disconnect
disconnect ==
    /\ Idle
    /\ op' = "disconnect"
    /\ arg' = 0 /\ cands' = <<>> /\ ci' = 1 /\ last_esr' = NoEsr
    /\ deviation_set' = FALSE
    /\ wire' = <<>> /\ esrs' = <<>> /\ werr' = 0
    /\ mode0' = modulation_mode /\ init0' = fm_initialized
    /\ Return("-")
    /\ UNCHANGED <<idn, model, restVars>>
    /\ IF instrument
       THEN /\ instrument' = FALSE
            /\ fm_initialized' = FALSE
            /\ modulation_mode' = "None"
            /\ initsNoTrip' = 0 /\ inits_smy' = 0
       ELSE UNCHANGED <<instrument, fm_initialized, modulation_mode, initVars>>

\* What every step inside a method leaves alone.
Frame ==
    UNCHANGED <<instrument, idn, model, op, arg, cands, mode0, init0, restVars>>
ModeFrame == UNCHANGED <<fm_initialized, modulation_mode, initVars>>

\* get_esr(): the *ESR? query; e is the integer answered, NoEsr when the
\* query raises or its answer does not parse.
GetEsr(e) ==
    /\ Sent("*ESR?")
    /\ esrs' = Append(esrs, e)
    /\ last_esr' = e

\* ------------------------------------------------------------ enable_output
\* Variant: a clean status is not taken as success, only a missing one.
EnableVerdictNoZero(smy, esr) ==
    IF esr = NoEsr THEN "True"
    ELSE IF smy /\ esr \in BenignCodes THEN "True"
    ELSE "next"

\* if esr is None or esr == 0: return True
\* if is_smy02 and esr in (32, 53): return True
EnableVerdict(smy, esr) ==
    IF esr = NoEsr \/ esr = 0 THEN "True"
    ELSE IF smy /\ esr \in BenignCodes THEN "True"
    ELSE "next"

\* Variant: any status read last is taken as non-fatal.
EnableFinalAny(esr) == IF esr # NoEsr THEN "True" ELSE "False"

\* after the loop: if last_esr in (32, 53): return True, else False
EnableFinal(esr) == IF esr \in BenignCodes THEN "True" ELSE "False"

enable_output ==
    /\ Enter("enable_output", 0, EnableCandidates(is_smy02), "cls")
    /\ UNCHANGED <<ctrlVars, initVars>>

\* self.clear_status(): writes *CLS; a failing write is swallowed there.
enable_output_cls ==
    /\ op = "enable_output" /\ pc = "cls"
    /\ Sent("*CLS")
    /\ pc' = "write"
    /\ UNCHANGED <<ci, last_esr, deviation_set, ret, esrs, werr>>
    /\ Frame /\ ModeFrame

enable_output_write ==
    /\ op = "enable_output" /\ pc = "write"
    /\ Sent(cands[ci])
    /\ \/ pc' = "esr" /\ UNCHANGED <<ret, werr>>
       \/ werr' = werr + 1 /\ Return("False")
    /\ UNCHANGED <<ci, last_esr, deviation_set, esrs>>
    /\ Frame /\ ModeFrame

enable_output_esr ==
    /\ op = "enable_output" /\ pc = "esr"
    /\ \E e \in EsrResults :
         /\ GetEsr(e)
         /\ IF EnableVerdict(is_smy02, e) = "True"
            THEN Return("True") /\ ci' = ci
            ELSE IF ci < Len(cands)
            THEN pc' = "cls" /\ ci' = ci + 1 /\ ret' = ret
            ELSE Return(EnableFinal(e)) /\ ci' = ci
    /\ UNCHANGED <<deviation_set, werr>>
    /\ Frame /\ ModeFrame

\* ------------------------------------------------- _try_commands_with_check
\* esr == 0 -> True; esr is not None -> next candidate; None -> True
TryVerdict(esr) ==
    IF esr # NoEsr /\ esr = 0 THEN "True"
    ELSE IF esr # NoEsr THEN "next"
    ELSE "True"

set_lfo_frequency ==
    /\ \E f \in LfoFrequencies :
         Enter("set_lfo_frequency", f, LfoFreqCandidates(f), "cls")
    /\ UNCHANGED <<ctrlVars, initVars>>

enable_lfo ==
    /\ Enter("enable_lfo", 0, EnableLfoCandidates, "cls")
    /\ UNCHANGED <<ctrlVars, initVars>>

disable_lfo ==
    /\ Enter("disable_lfo", 0, DisableLfoCandidates, "cls")
    /\ UNCHANGED <<ctrlVars, initVars>>

TryOps == {"set_lfo_frequency", "enable_lfo", "disable_lfo"}

\* Moving on to the next candidate, or leaving the loop with False.
TryNext ==
    IF ci < Len(cands)
    THEN pc' = "cls" /\ ci' = ci + 1 /\ ret' = ret
    ELSE Return("False") /\ ci' = ci

try_commands_cls ==
    /\ op \in TryOps /\ pc = "cls"
    /\ Sent("*CLS")
    /\ pc' = "write"
    /\ UNCHANGED <<ci, last_esr, deviation_set, ret, esrs, werr>>
    /\ Frame /\ ModeFrame

try_commands_write ==
    /\ op \in TryOps /\ pc = "write"
    /\ Sent(cands[ci])
    /\ \/ pc' = "esr" /\ UNCHANGED <<ret, werr, ci>>
       \/ werr' = werr + 1 /\ TryNext
    /\ UNCHANGED <<last_esr, deviation_set, esrs>>
    /\ Frame /\ ModeFrame

try_commands_esr ==
    /\ op \in TryOps /\ pc = "esr"
    /\ \E e \in EsrResults :
         /\ GetEsr(e)
         /\ IF TryVerdict(e) = "True"
            THEN Return("True") /\ ci' = ci
            ELSE TryNext
    /\ UNCHANGED <<deviation_set, werr>>
    /\ Frame /\ ModeFrame

\* ------------------------------------------- set_frequency / set_amplitude
\* Variant: a missing status is taken as success, as the candidate loops do.
SetVerdictOptimistic(esr) == IF esr = NoEsr \/ esr = 0 THEN "True" ELSE "False"

\* if esr is not None and esr == 0: return True, else False
SetVerdict(esr) == IF esr # NoEsr /\ esr = 0 THEN "True" ELSE "False"

set_frequency ==
    /\ \E f \in Frequencies : Enter("set_frequency", f, <<RfCmd(f)>>, "write")
    /\ UNCHANGED <<ctrlVars, initVars>>

set_amplitude ==
    /\ \E a \in Amplitudes : Enter("set_amplitude", a, <<LevelCmd(a)>>, "write")
    /\ UNCHANGED <<ctrlVars, initVars>>

SetOps == {"set_frequency", "set_amplitude"}

\* The write; on SMY02 the method returns True right after it.
set_value_write ==
    /\ op \in SetOps /\ pc = "write"
    /\ Sent(cands[ci])
    /\ \/ werr' = werr + 1 /\ Return("False")
       \/ /\ werr' = werr
          /\ IF is_smy02 THEN Return("True") ELSE pc' = "esr" /\ ret' = ret
    /\ UNCHANGED <<ci, last_esr, deviation_set, esrs>>
    /\ Frame /\ ModeFrame

set_value_esr ==
    /\ op \in SetOps /\ pc = "esr"
    /\ \E e \in EsrResults : GetEsr(e) /\ Return(SetVerdict(e))
    /\ UNCHANGED <<ci, deviation_set, werr>>
    /\ Frame /\ ModeFrame

\* ----------------------------------------------------------- disable_output
disable_output ==
    /\ Enter("disable_output", 0, DisableCmds, "cls")
    /\ UNCHANGED <<ctrlVars, initVars>>

disable_output_cls ==
    /\ op = "disable_output" /\ pc = "cls"
    /\ Sent("*CLS")
    /\ pc' = "write"
    /\ UNCHANGED <<ci, last_esr, deviation_set, ret, esrs, werr>>
    /\ Frame /\ ModeFrame

disable_output_write ==
    /\ op = "disable_output" /\ pc = "write"
    /\ Sent(cands[ci])
    /\ \/ werr' = werr + 1 /\ Return("False") /\ ci' = ci
       \/ /\ werr' = werr
          /\ IF ci < Len(cands)
             THEN ci' = ci + 1 /\ UNCHANGED <<pc, ret>>
             ELSE Return("True") /\ ci' = ci
    /\ UNCHANGED <<last_esr, deviation_set, esrs>>
    /\ Frame /\ ModeFrame

\* -------------------------------------------------------- set_modulation_fm
\* Variant: the init sequence is sent on every call.
FmPlanAlwaysInit(initialized, mode, d) == FmInitCmds \o <<FmCmd(d)>>

\* Variant: the init sequence is sent again whenever the mode is not FM.
FmPlanReinit(initialized, mode, d) ==
    (IF ~initialized \/ mode # "FM" THEN FmInitCmds ELSE <<>>) \o <<FmCmd(d)>>

\* The SMY02 branch's writes: the init sequence when not yet initialized,
\* else the switch-back sequence when the mode is not FM, then the deviation.
FmPlan(initialized, mode, d) ==
    (IF ~initialized THEN FmInitCmds
     ELSE IF mode # "FM" THEN FmSwitchCmds
     ELSE <<>>) \o <<FmCmd(d)>>

\* Variant: no plan counts as having taken the init branch.
InitBranchNever(plan) == FALSE

\* The plan of a call that took the "if not self._fm_initialized" branch.
InitBranch(plan) ==
    /\ Len(plan) > Len(FmInitCmds)
    /\ SubSeq(plan, 1, Len(FmInitCmds)) = FmInitCmds

\* The generic branch's writes: tone setup, the deviation candidates, FM:ON.
FmGenericPlan(d) == FmPreCmds \o DeviationCmds(d) \o <<"FM:ON">>

\* Positions of the deviation candidates in FmGenericPlan.
FirstDev == Len(FmPreCmds) + 1
LastDev == Len(FmPreCmds) + 5

\* if esr is None or esr == 0: deviation_set = True; break
DevVerdict(esr) == IF esr = NoEsr \/ esr = 0 THEN "set" ELSE "next"

Bump(n) == IF n < MaxInits THEN n + 1 ELSE n

set_modulation_fm ==
    /\ \E d \in Deviations :
         IF is_smy02
         THEN Enter("set_modulation_fm", d,
                    FmPlan(fm_initialized, modulation_mode, d), "smy")
         ELSE Enter("set_modulation_fm", d, FmGenericPlan(d), "gcls")
    /\ UNCHANGED <<ctrlVars, initVars>>

\* One write of the SMY02 branch. _fm_initialized is set once the three
\* init commands are out, _modulation_mode once the deviation is out.
set_modulation_fm_smy ==
    /\ op = "set_modulation_fm" /\ pc = "smy"
    /\ Sent(cands[ci])
    /\ \/ /\ werr' = werr + 1
          /\ Return("False")
          /\ UNCHANGED <<ci, fm_initialized, modulation_mode, initVars>>
       \/ /\ werr' = werr
          /\ IF InitBranch(cands) /\ ci = Len(FmInitCmds)
             THEN /\ fm_initialized' = TRUE
                  /\ initsNoTrip' = Bump(initsNoTrip)
                  /\ inits_smy' = Bump(inits_smy)
             ELSE UNCHANGED <<fm_initialized, initVars>>
          /\ IF ci = Len(cands)
             THEN modulation_mode' = "FM" /\ Return("True") /\ ci' = ci
             ELSE UNCHANGED <<modulation_mode, pc, ret>> /\ ci' = ci + 1
    /\ UNCHANGED <<last_esr, deviation_set, esrs>>
    /\ Frame

set_modulation_fm_gcls ==
    /\ op = "set_modulation_fm" /\ pc = "gcls"
    /\ Sent("*CLS")
    /\ pc' = "pre"
    /\ UNCHANGED <<ci, last_esr, deviation_set, ret, esrs, werr>>
    /\ Frame /\ ModeFrame

\* FM:INT 1.000E+3 and AF 1000; a failing write leaves through the outer except.
set_modulation_fm_pre ==
    /\ op = "set_modulation_fm" /\ pc = "pre"
    /\ Sent(cands[ci])
    /\ \/ werr' = werr + 1 /\ Return("False") /\ ci' = ci
       \/ /\ werr' = werr
          /\ ci' = ci + 1
          /\ pc' = (IF ci + 1 = FirstDev THEN "dcls" ELSE "pre")
          /\ ret' = ret
    /\ UNCHANGED <<last_esr, deviation_set, esrs>>
    /\ Frame /\ ModeFrame

\* The next deviation candidate, or on to FM:ON after the last one.
DevNext ==
    /\ ci' = ci + 1
    /\ pc' = (IF ci < LastDev THEN "dcls" ELSE "fmon")

set_modulation_fm_dcls ==
    /\ op = "set_modulation_fm" /\ pc = "dcls"
    /\ Sent("*CLS")
    /\ pc' = "dwrite"
    /\ UNCHANGED <<ci, last_esr, deviation_set, ret, esrs, werr>>
    /\ Frame /\ ModeFrame

\* A failing candidate write is swallowed: except Exception: continue
set_modulation_fm_dwrite ==
    /\ op = "set_modulation_fm" /\ pc = "dwrite"
    /\ Sent(cands[ci])
    /\ \/ werr' = werr + 1 /\ DevNext
       \/ werr' = werr /\ pc' = "desr" /\ ci' = ci
    /\ UNCHANGED <<last_esr, deviation_set, ret, esrs>>
    /\ Frame /\ ModeFrame

set_modulation_fm_desr ==
    /\ op = "set_modulation_fm" /\ pc = "desr"
    /\ \E e \in EsrResults :
         /\ GetEsr(e)
         /\ IF DevVerdict(e) = "set"
            THEN deviation_set' = TRUE /\ pc' = "fmon" /\ ci' = LastDev + 1
            ELSE deviation_set' = deviation_set /\ DevNext
    /\ UNCHANGED <<ret, werr>>
    /\ Frame /\ ModeFrame

\* Variant: an unverified deviation makes the call fail before FM:ON.
AfterDeviationsStrict(devset) == IF devset THEN "fmon" ELSE "fail"

\* if not deviation_set: logger.warning(...) -- and on to FM:ON either way
AfterDeviations(devset) == "fmon"

\* self.instrument.write("FM:ON"); self._modulation_mode = "FM"; return True
set_modulation_fm_fmon ==
    /\ op = "set_modulation_fm" /\ pc = "fmon"
    /\ IF AfterDeviations(deviation_set) = "fmon"
       THEN /\ Sent(cands[ci])
            /\ \/ /\ werr' = werr + 1
                  /\ Return("False")
                  /\ UNCHANGED <<modulation_mode, initVars>>
               \/ /\ werr' = werr
                  /\ modulation_mode' = "FM"
                  /\ initsNoTrip' = Bump(initsNoTrip)
                  /\ inits_smy' = inits_smy
                  /\ Return("True")
       ELSE /\ Return("False")
            /\ UNCHANGED <<wire, werr, modulation_mode, initVars>>
    /\ UNCHANGED <<ci, last_esr, deviation_set, esrs, fm_initialized>>
    /\ Frame

\* -------------------------------------------------------- set_modulation_am
\* Variant: AM is switched on before FM is switched off.
AmCmdsSwapped(smy) ==
    IF smy THEN <<"AM:ON", "FM:OFF">>
    ELSE <<"AM:ON", "FM:OFF", "AM ON", "AM:STAT ON">>

AmCmds(smy) == IF smy THEN AmCmdsSmy ELSE AmCmdsGeneric

set_modulation_am ==
    /\ Enter("set_modulation_am", 0, AmCmds(is_smy02), "am")
    /\ UNCHANGED <<ctrlVars, initVars>>

\* After the last command: self._modulation_mode = "AM"; return True
AmDone ==
    /\ modulation_mode' = "AM"
    /\ initsNoTrip' = (IF modulation_mode = "FM" THEN 0 ELSE initsNoTrip)
    /\ inits_smy' = inits_smy
    /\ Return("True")
    /\ ci' = ci

\* One write. On SMY02 a failing write ends the call with False; the
\* generic loop swallows it and goes on to the next command.
set_modulation_am_write ==
    /\ op = "set_modulation_am" /\ pc = "am"
    /\ Sent(cands[ci])
    /\ \E ok \in BOOLEAN :
         /\ werr' = (IF ok THEN werr ELSE werr + 1)
         /\ IF ~ok /\ is_smy02
            THEN Return("False") /\ ci' = ci /\ UNCHANGED <<modulation_mode, initVars>>
            ELSE IF ci = Len(cands)
            THEN AmDone
            ELSE ci' = ci + 1 /\ UNCHANGED <<pc, ret, modulation_mode, initVars>>
    /\ UNCHANGED <<last_esr, deviation_set, esrs, fm_initialized>>
    /\ Frame

\* --------------------------------------------------------------------- Next
Next ==
    \/ connect
    \/ disconnect
    \/ set_frequency
    \/ set_amplitude
    \/ set_value_write
    \/ set_value_esr
    \/ enable_output
    \/ enable_output_cls
    \/ enable_output_write
    \/ enable_output_esr
    \/ disable_output
    \/ disable_output_cls
    \/ disable_output_write
    \/ set_modulation_fm
    \/ set_modulation_fm_smy
    \/ set_modulation_fm_gcls
    \/ set_modulation_fm_pre
    \/ set_modulation_fm_dcls
    \/ set_modulation_fm_dwrite
    \/ set_modulation_fm_desr
    \/ set_modulation_fm_fmon
    \/ set_modulation_am
    \/ set_modulation_am_write
    \/ set_lfo_frequency
    \/ enable_lfo
    \/ disable_lfo
    \/ try_commands_cls
    \/ try_commands_write
    \/ try_commands_esr

Spec == Init /\ [][Next]_vars

\* ============================================================ front ends
\* Playlist entries the model draws from: frequency in MHz, level in dBm.
EntryA == [frequency |-> 144, level |-> -20, bandwidth |-> "12.5 kHz"]
EntryB == [frequency |-> 145, level |-> -10, bandwidth |-> "25 kHz"]
Entries == {EntryA, EntryB}

\* The entry the panel holds when the list has n entries: the user sets
\* the first profile for odd positions and the second for even ones.
PanelEntry(n) == IF n % 2 = 0 THEN EntryA ELSE EntryB

\* BANDWIDTHS: profile name -> FM deviation in Hz.
BandwidthNames == {"6.25 kHz", "12.5 kHz", "25 kHz"}
Bandwidths(name) ==
    CASE name = "6.25 kHz" -> 3125
      [] name = "12.5 kHz" -> 6250
      [] name = "25 kHz" -> 12500

\* A front-end step as the model of the front ends takes it: the
\* controller's own state is not followed.
WireFrame == UNCHANGED <<ctrlVars, callVars, linkVars, initVars, lockVars>>

CtrlFrame == WireFrame /\ UNCHANGED bandVars

ListFrame == UNCHANGED listVars

PollFrame == UNCHANGED pollVars

\* list.pop(idx), idx 0-based
Pop(list, idx) ==
    SubSeq(list, 1, idx) \o SubSeq(list, idx + 2, Len(list))

\* One controller call of a front-end step, as the step saw it.
Call(name, a, r) == [call |-> name, arg |-> a, res |-> r]

\* The step made exactly these controller calls.
Calls(log) == hop_log' = log /\ hop_calls' = Len(log)

\* The step made no controller call and raised nothing.
Quiet == Calls(<<>>) /\ hop_error' = "none"

SessionFrame == UNCHANGED <<enable_failed, hop_prev_bw, hop_prev_auto>>

\* What a front end sees of set_frequency / set_amplitude: True ("ok"),
\* False because the status after the write was not 0 ("rejected": only off
\* the SMY02 identity, which skips the status check), False because the
\* write raised or there is no instrument ("fault").
SetOutcome(smy, raised, esr) ==
    IF raised THEN "fault"
    ELSE IF smy \/ SetVerdict(esr) = "True" THEN "ok"
    ELSE "rejected"

SetOutcomes ==
    {SetOutcome(smy, raised, esr) :
        smy \in BOOLEAN, raised \in BOOLEAN, esr \in EsrResults}

\* --------------------------------------------------------- playlist edits
\* _add_to_playlist / _add_current: self.playlist.append(entry)
add_to_playlist ==
    /\ gui \in {"tk", "qt"}
    /\ Len(playlist) < MaxPlaylist
    /\ playlist' = Append(playlist, PanelEntry(Len(playlist)))
    /\ last' = "add_to_playlist"
    /\ Quiet
    /\ SessionFrame
    /\ UNCHANGED <<gui, connected, has_controller, transmitting,
                   playlist_running, current_playlist_index,
                   active_hop_playlist, workers, timer_active, hop_last_bw,
                   auto_mod>>
    /\ CtrlFrame
    /\ ListFrame
    /\ PollFrame

\* _remove_from_playlist / _remove_selected: self.playlist.pop(idx), with
\* the last row selected.
remove_from_playlist ==
    /\ gui \in {"tk", "qt"}
    /\ playlist # <<>>
    /\ playlist' = Pop(playlist, Len(playlist) - 1)
    /\ last' = "remove_from_playlist"
    /\ Quiet
    /\ SessionFrame
    /\ UNCHANGED <<gui, connected, has_controller, transmitting,
                   playlist_running, current_playlist_index,
                   active_hop_playlist, workers, timer_active, hop_last_bw,
                   auto_mod>>
    /\ CtrlFrame
    /\ ListFrame
    /\ PollFrame

\* _clear_playlist: self.playlist.clear()
clear_playlist ==
    /\ gui \in {"tk", "qt"}
    /\ playlist' = <<>>
    /\ last' = "clear_playlist"
    /\ Quiet
    /\ SessionFrame
    /\ UNCHANGED <<gui, connected, has_controller, transmitting,
                   playlist_running, current_playlist_index,
                   active_hop_playlist, workers, timer_active, hop_last_bw,
                   auto_mod>>
    /\ CtrlFrame
    /\ ListFrame
    /\ PollFrame

\* ------------------------------------------------- connect and disconnect
\* _connect: a fresh controller; connected follows controller.connect().
\* The state poller the Tk handler starts touches no field of the
\* schedulers; tk_connect follows the handler with it.
gui_connect ==
    /\ gui \in {"tk", "qt"}
    /\ has_controller' = TRUE
    /\ \E ok \in BOOLEAN : connected' = ok
    /\ last' = "connect"
    /\ Quiet
    /\ SessionFrame
    /\ UNCHANGED <<gui, transmitting, playlist, playlist_running,
                   current_playlist_index, active_hop_playlist, workers,
                   timer_active, hop_last_bw, auto_mod>>
    /\ CtrlFrame
    /\ ListFrame
    /\ PollFrame

\* _stop_hopping ran: the threads alive in a running session are marked.
Stopped(ws) ==
    [w \in 1..MaxWorkers |->
        IF playlist_running /\ ws[w].pc # "none"
        THEN [ws[w] EXCEPT !.stopped = TRUE] ELSE ws[w]]

\* SMY02GUI._disconnect: with a controller, _stop_hopping(), _shutdown()
\* when transmitting (disable_output, unless not connected), then
\* controller.disconnect() and _cancel_device_state_refresh().
tk_disconnect ==
    /\ gui = "tk"
    /\ last' = "disconnect"
    /\ hop_error' = "none"
    /\ IF has_controller
       THEN /\ playlist_running' = FALSE
            /\ workers' = Stopped(workers)
            /\ transmitting' = (transmitting /\ ~connected)
            /\ Calls(IF transmitting /\ connected
                     THEN <<Call("disable_output", 0, "-")>> ELSE <<>>)
            /\ connected' = FALSE
       ELSE /\ UNCHANGED <<playlist_running, workers, transmitting, connected>>
            /\ Calls(<<>>)
    /\ SessionFrame
    /\ IF has_controller
       THEN state_refresh_job' = FALSE /\ refresh_timer' = FALSE
       ELSE UNCHANGED <<state_refresh_job, refresh_timer>>
    /\ UNCHANGED <<state_refresh_in_progress, refreshers, after_queue>>
    /\ UNCHANGED <<gui, has_controller, playlist, current_playlist_index,
                   active_hop_playlist, timer_active, hop_last_bw, auto_mod>>
    /\ CtrlFrame
    /\ ListFrame

\* SMY02QtGUI._disconnect: _stop_hopping() when running, then as above.
qt_disconnect ==
    /\ gui = "qt"
    /\ last' = "disconnect"
    /\ hop_error' = "none"
    /\ IF playlist_running
       THEN playlist_running' = FALSE /\ timer_active' = FALSE
            /\ hop_last_bw' = "None"
       ELSE UNCHANGED <<playlist_running, timer_active, hop_last_bw>>
    /\ IF has_controller
       THEN /\ transmitting' = FALSE
            /\ Calls(IF transmitting
                     THEN <<Call("disable_output", 0, "-")>> ELSE <<>>)
       ELSE UNCHANGED transmitting /\ Calls(<<>>)
    /\ connected' = FALSE
    /\ SessionFrame
    /\ UNCHANGED <<gui, has_controller, playlist, current_playlist_index,
                   active_hop_playlist, workers, auto_mod>>
    /\ CtrlFrame
    /\ ListFrame
    /\ PollFrame

\* ----------------------------------------------------------- Tk scheduler
\* Variant: the already-running check is left out.
TkStartRejectedNoRunningCheck == ~connected \/ playlist = <<>>

\* The three early returns of SMY02GUI._start_hopping.
TkStartRejected == ~connected \/ playlist = <<>> \/ playlist_running

FreeSlots == {w \in 1..MaxWorkers : workers[w].pc = "none"}

\* copy.deepcopy(self.playlist): a value of its own.
DeepCopy(list) == list

\* SMY02GUI._start_hopping: snapshot, flags, and the worker thread.
tk_start_hopping ==
    /\ gui = "tk"
    /\ last' = "start_hopping"
    /\ Quiet
    /\ IF TkStartRejected
       THEN UNCHANGED <<active_hop_playlist, playlist_running,
                        current_playlist_index, workers, enable_failed>>
       ELSE /\ FreeSlots # {}
            /\ active_hop_playlist' = DeepCopy(playlist)
            /\ playlist_running' = TRUE
            /\ current_playlist_index' = 0
            /\ enable_failed' = FALSE
            /\ LET w == CHOOSE x \in FreeSlots : \A y \in FreeSlots : x <= y IN
               workers' = [workers EXCEPT ![w] = [NoWorker EXCEPT !.pc = "start"]]
    /\ UNCHANGED <<gui, connected, has_controller, transmitting, playlist,
                   timer_active, hop_last_bw, auto_mod, hop_prev_bw,
                   hop_prev_auto>>
    /\ CtrlFrame
    /\ ListFrame
    /\ PollFrame

\* SMY02GUI._stop_hopping: only the flag.
tk_stop_hopping ==
    /\ gui = "tk"
    /\ last' = "stop_hopping"
    /\ Quiet
    /\ playlist_running' = FALSE
    /\ workers' = Stopped(workers)
    /\ SessionFrame
    /\ UNCHANGED <<gui, connected, has_controller, transmitting, playlist,
                   current_playlist_index, active_hop_playlist, timer_active,
                   hop_last_bw, auto_mod>>
    /\ CtrlFrame
    /\ ListFrame
    /\ PollFrame

WorkerFrame ==
    /\ last' = "worker"
    /\ UNCHANGED <<gui, connected, has_controller, playlist, timer_active,
                   hop_last_bw, auto_mod, hop_prev_bw, hop_prev_auto>>
    /\ WireFrame
    /\ ListFrame
    /\ PollFrame

At(w, where) == gui = "tk" /\ workers[w].pc = where

Goto(w, where) == workers' = [workers EXCEPT ![w].pc = where]

\* Variant: the thread takes the live list.
SnapshotReadLive == playlist

\* self.active_hop_playlist or []
SnapshotRead == active_hop_playlist

\* _hopping_worker entry: return when not connected, else read the snapshot
\* (hop_playlist = self.active_hop_playlist or []).
worker_start ==
    \E w \in 1..MaxWorkers :
      /\ At(w, "start")
      /\ IF ~connected
         THEN workers' = [workers EXCEPT ![w] = NoWorker]
         ELSE workers' = [workers EXCEPT ![w].pc = "loop",
                                         ![w].hop_playlist = SnapshotRead]
      /\ Quiet
      /\ UNCHANGED <<transmitting, playlist_running, current_playlist_index,
                     active_hop_playlist, enable_failed, bandVars>>
      /\ WorkerFrame

\* The sequence the thread walks: its local hop_playlist.
HopSequence(w) == workers[w].hop_playlist

\* if not self.transmitting and not rf_enable_failed
TkEnableDue(w) == ~transmitting /\ ~workers[w].rf_enable_failed

\* Variant: the profile is applied in every cycle.
TkBandwidthDueAlways(w, entry) == TRUE

\* if entry['bandwidth'] != last_bw
TkBandwidthDue(w, entry) == entry.bandwidth # workers[w].last_bw

\* Variant: a False from set_frequency / set_amplitude is ignored.
TkBreakOnNever(outcome) == FALSE

\* if not self.controller.set_frequency(...): ... break
TkBreakOn(outcome) == outcome # "ok"

\* _apply_bandwidth: deviation = self.BANDWIDTHS[bw_name] raises KeyError
\* for a name that is no key of the table.
TkProfileMissing(name) == name \notin BandwidthNames

\* One pass of the loop body from the fetch to the sleep: set_frequency,
\* set_amplitude (a False from either breaks out), the profile when it
\* differs from last_bw (KeyError goes to except), enable_output when RF
\* is off and has not failed.
TkCycle(w, entry, fo, lo, rf) ==
    LET me == workers[w]
        freq == Call("set_frequency", entry.frequency, fo)
        level == Call("set_amplitude", entry.level, lo)
        bwcall == IF TkBandwidthDue(w, entry)
                  THEN <<Call("set_modulation_fm", Bandwidths(entry.bandwidth), "-")>>
                  ELSE <<>>
        rfdue == TkEnableDue(w)
        rfcall == IF rfdue
                  THEN <<Call("enable_output", 0, IF rf THEN "ok" ELSE "failed")>>
                  ELSE <<>>
    IN IF TkBreakOn(fo)
       THEN /\ Calls(<<freq>>)
            /\ hop_error' = "none"
            /\ Goto(w, "finally")
            /\ UNCHANGED <<transmitting, enable_failed>>
       ELSE IF TkBreakOn(lo)
       THEN /\ Calls(<<freq, level>>)
            /\ hop_error' = "none"
            /\ Goto(w, "finally")
            /\ UNCHANGED <<transmitting, enable_failed>>
       ELSE IF TkBandwidthDue(w, entry) /\ TkProfileMissing(entry.bandwidth)
       THEN /\ Calls(<<freq, level>>)
            /\ hop_error' = "KeyError"
            /\ Goto(w, "finally")
            /\ UNCHANGED <<transmitting, enable_failed>>
       ELSE /\ Calls(<<freq, level>> \o bwcall \o rfcall)
            /\ hop_error' = "none"
            /\ transmitting' = (transmitting \/ (rfdue /\ rf))
            /\ enable_failed' = (enable_failed \/ (rfdue /\ ~rf))
            /\ workers' = [workers EXCEPT
                  ![w].pc = "dwell",
                  ![w].last_bw = IF bwcall # <<>> THEN entry.bandwidth
                                 ELSE me.last_bw,
                  ![w].prev_bw = entry.bandwidth,
                  ![w].rf_enable_failed = (me.rf_enable_failed \/ (rfdue /\ ~rf)),
                  ![w].n = (me.n + 1) % Len(HopSequence(w))]

\* Loop head and body: the while test, the empty test, the fetch
\* hop_playlist[self.current_playlist_index] (IndexError goes to except),
\* then the calls of the cycle.
WorkerLoop(w) ==
    /\ At(w, "loop")
    /\ IF ~playlist_running \/ HopSequence(w) = <<>>
       THEN /\ Goto(w, "finally")
            /\ Quiet
            /\ UNCHANGED <<transmitting, enable_failed>>
       ELSE IF current_playlist_index >= Len(HopSequence(w))
       THEN /\ Goto(w, "finally")
            /\ Calls(<<>>)
            /\ hop_error' = "IndexError"
            /\ UNCHANGED <<transmitting, enable_failed>>
       ELSE LET entry == HopSequence(w)[current_playlist_index + 1] IN
               \/ \E fo \in SetOutcomes \ {"ok"} :
                    TkCycle(w, entry, fo, "ok", TRUE)
               \/ \E lo \in SetOutcomes \ {"ok"} :
                    TkCycle(w, entry, "ok", lo, TRUE)
               \/ \E rf \in (IF TkEnableDue(w) THEN BOOLEAN ELSE {TRUE}) :
                    TkCycle(w, entry, "ok", "ok", rf)
    /\ UNCHANGED <<playlist_running, current_playlist_index,
                   active_hop_playlist>>
    /\ WorkerFrame

worker_cycle ==
    \E w \in 1..MaxWorkers : WorkerLoop(w) /\ UNCHANGED bandVars

\* sleep(dwell_seconds) is over: index = (index + 1) % len(hop_playlist)
worker_dwell ==
    \E w \in 1..MaxWorkers :
      /\ At(w, "dwell")
      /\ current_playlist_index' =
           (current_playlist_index + 1) % Len(HopSequence(w))
      /\ Goto(w, "loop")
      /\ Quiet
      /\ UNCHANGED <<transmitting, playlist_running, active_hop_playlist,
                     enable_failed, bandVars>>
      /\ WorkerFrame

\* finally: playlist_running = False; active_hop_playlist = None
worker_finally ==
    \E w \in 1..MaxWorkers :
      /\ At(w, "finally")
      /\ playlist_running' = FALSE
      /\ active_hop_playlist' = <<>>
      /\ workers' = [workers EXCEPT ![w] = NoWorker]
      /\ Quiet
      /\ UNCHANGED <<transmitting, current_playlist_index, enable_failed,
                     bandVars>>
      /\ WorkerFrame

\* ----------------------------------------------------------- Qt scheduler
\* bw = str(e.get("bandwidth", "12.5 kHz")); if bw not in BANDWIDTHS: default
NormalizeBw(bw) == IF bw \in BandwidthNames THEN bw ELSE "12.5 kHz"

\* if bw != self._hop_last_bw
QtBandwidthDue(bw, lastbw) == bw # lastbw

\* The modulation step of _hop_once: with auto-mod checked,
\* _apply_modulation_for_frequency (AM inside the AM range, FM with the
\* profile ticked in the panel outside it, nothing when not connected);
\* otherwise set_modulation_fm when the profile differs from _hop_last_bw.
QtModCalls(bw, lastbw, in_am) ==
    IF auto_mod
    THEN IF ~connected THEN <<>>
         ELSE IF in_am THEN <<Call("set_modulation_am", 0, "-")>>
         ELSE <<Call("set_modulation_fm", Bandwidths("12.5 kHz"), "-")>>
    ELSE IF QtBandwidthDue(bw, lastbw)
         THEN <<Call("set_modulation_fm", Bandwidths(bw), "-")>>
         ELSE <<>>

\* SMY02QtGUI._hop_once entered with the given index and remembered profile:
\* set_frequency, set_amplitude (results ignored), the modulation step,
\* enable_output when not transmitting, then the index advance. An index
\* past the live list raises IndexError.
HopOnce(running, idx, lastbw) ==
    IF ~running \/ ~has_controller \/ playlist = <<>>
    THEN /\ current_playlist_index' = idx
         /\ hop_last_bw' = lastbw
         /\ Quiet
         /\ UNCHANGED transmitting
    ELSE IF idx >= Len(playlist)
    THEN /\ hop_error' = "IndexError"
         /\ current_playlist_index' = idx
         /\ hop_last_bw' = lastbw
         /\ Calls(<<>>)
         /\ UNCHANGED transmitting
    ELSE LET e == playlist[idx + 1]
             bw == NormalizeBw(e.bandwidth)
         IN \E fo \in SetOutcomes, lo \in SetOutcomes,
               in_am \in BOOLEAN, rf \in BOOLEAN :
              /\ Calls(<<Call("set_frequency", e.frequency, fo),
                         Call("set_amplitude", e.level, lo)>>
                       \o QtModCalls(bw, lastbw, in_am)
                       \o (IF transmitting THEN <<>>
                           ELSE <<Call("enable_output", 0,
                                       IF rf THEN "ok" ELSE "failed")>>))
              /\ hop_last_bw' = (IF auto_mod THEN "None" ELSE bw)
              /\ transmitting' = (transmitting \/ rf)
              /\ current_playlist_index' = (idx + 1) % Len(playlist)
              /\ hop_error' = "none"

\* The session's history after a step that may have run _hop_once: first
\* says that the step started the session.
QtSession(first, idx) ==
    /\ enable_failed' =
         ((~first /\ enable_failed)
          \/ \E k \in 1..Len(hop_log') :
               hop_log'[k] = Call("enable_output", 0, "failed"))
    /\ IF hop_log' # <<>>
       THEN /\ hop_prev_bw' = NormalizeBw(playlist[idx + 1].bandwidth)
            /\ hop_prev_auto' = auto_mod
       ELSE IF first
       THEN hop_prev_bw' = "None" /\ hop_prev_auto' = FALSE
       ELSE UNCHANGED <<hop_prev_bw, hop_prev_auto>>

\* The three early returns of SMY02QtGUI._start_hopping.
QtStartRejected ==
    ~connected \/ ~has_controller \/ playlist = <<>> \/ playlist_running

\* SMY02QtGUI._start_hopping: flags, the timer, and the first hop at once.
QtStartHopping ==
    /\ gui = "qt"
    /\ last' = "start_hopping"
    /\ IF QtStartRejected
       THEN /\ UNCHANGED <<playlist_running, current_playlist_index,
                          hop_last_bw, timer_active, transmitting>>
            /\ Quiet
            /\ SessionFrame
       ELSE /\ playlist_running' = TRUE
            /\ timer_active' = TRUE
            /\ HopOnce(TRUE, 0, "None")
            /\ QtSession(TRUE, 0)
    /\ UNCHANGED <<gui, connected, has_controller, playlist,
                   active_hop_playlist, workers, auto_mod>>
    /\ WireFrame
    /\ ListFrame
    /\ PollFrame

qt_start_hopping == QtStartHopping /\ UNCHANGED bandVars

\* SMY02QtGUI._stop_hopping
qt_stop_hopping ==
    /\ gui = "qt"
    /\ last' = "stop_hopping"
    /\ playlist_running' = FALSE
    /\ timer_active' = FALSE
    /\ hop_last_bw' = "None"
    /\ Quiet
    /\ SessionFrame
    /\ UNCHANGED <<gui, connected, has_controller, transmitting, playlist,
                   current_playlist_index, active_hop_playlist, workers,
                   auto_mod>>
    /\ CtrlFrame
    /\ ListFrame
    /\ PollFrame

\* hop_timer.timeout -> _hop_once
QtHopTimer ==
    /\ gui = "qt"
    /\ timer_active
    /\ last' = "hop_timer"
    /\ HopOnce(playlist_running, current_playlist_index, hop_last_bw)
    /\ QtSession(FALSE, current_playlist_index)
    /\ UNCHANGED <<gui, connected, has_controller, playlist, playlist_running,
                   active_hop_playlist, workers, timer_active, auto_mod>>
    /\ WireFrame
    /\ ListFrame
    /\ PollFrame

qt_hop_timer == QtHopTimer /\ UNCHANGED bandVars

\* The user ticks or unticks chk_auto_mod.
qt_toggle_auto_mod ==
    /\ gui = "qt"
    /\ auto_mod' = ~auto_mod
    /\ last' = "toggle_auto_mod"
    /\ Quiet
    /\ SessionFrame
    /\ UNCHANGED <<gui, connected, has_controller, transmitting, playlist,
                   playlist_running, current_playlist_index,
                   active_hop_playlist, workers, timer_active, hop_last_bw>>
    /\ CtrlFrame
    /\ ListFrame
    /\ PollFrame

HopInit == CtrlInit /\ GuiInit /\ RestInit /\ gui \in {"tk", "qt"}

HopNext ==
    \/ add_to_playlist
    \/ remove_from_playlist
    \/ clear_playlist
    \/ gui_connect
    \/ tk_disconnect
    \/ qt_disconnect
    \/ tk_start_hopping
    \/ tk_stop_hopping
    \/ worker_start
    \/ worker_cycle
    \/ worker_dwell
    \/ worker_finally
    \/ qt_start_hopping
    \/ qt_stop_hopping
    \/ qt_hop_timer
    \/ qt_toggle_auto_mod

HopSpec == HopInit /\ [][HopNext]_vars

\* ------------------------------------------------- Tk device-state poller
FreeRefreshers == {r \in 1..MaxRefreshers : refreshers[r] = "none"}

\* Variant: the in-progress test is left out.
RefreshBusyNever == FALSE

\* if self.state_refresh_in_progress: return
RefreshBusy == state_refresh_in_progress

\* _refresh_device_state with the given connected value: return when not
\* connected or without controller, return when a refresh is in progress,
\* else set the flag and start a thread on _refresh_device_state_worker.
RefreshDeviceState(conn, ctrl) ==
    IF ~conn \/ ~ctrl \/ RefreshBusy
    THEN UNCHANGED <<state_refresh_in_progress, refreshers>>
    ELSE /\ FreeRefreshers # {}
         /\ state_refresh_in_progress' = TRUE
         /\ LET r == CHOOSE x \in FreeRefreshers : \A y \in FreeRefreshers : x <= y
            IN refreshers' = [refreshers EXCEPT ![r] = "run"]

\* _schedule_device_state_refresh: cancel the pending job, and when
\* connected ask Tk for _auto_device_state_refresh in 3000 ms.
ScheduleDeviceStateRefresh(conn) ==
    /\ state_refresh_job' = conn
    /\ refresh_timer' = conn

\* What a poller step leaves alone.
PollerFrame ==
    /\ UNCHANGED <<gui, transmitting, playlist, playlist_running,
                   current_playlist_index, active_hop_playlist, workers,
                   timer_active, hop_last_bw, auto_mod>>
    /\ Quiet
    /\ SessionFrame
    /\ CtrlFrame
    /\ ListFrame

\* SMY02GUI._connect: a fresh controller; when connect() succeeds,
\* _refresh_device_state() and _schedule_device_state_refresh().
tk_connect ==
    /\ gui = "tk"
    /\ last' = "connect"
    /\ has_controller' = TRUE
    /\ \E ok \in BOOLEAN :
         /\ connected' = ok
         /\ IF ok
            THEN /\ RefreshDeviceState(TRUE, TRUE)
                 /\ ScheduleDeviceStateRefresh(TRUE)
            ELSE UNCHANGED <<state_refresh_in_progress, refreshers,
                             state_refresh_job, refresh_timer>>
    /\ UNCHANGED after_queue
    /\ PollerFrame

\* The "Refresh State" button: _refresh_device_state.
tk_refresh_device_state ==
    /\ gui = "tk"
    /\ last' = "refresh_device_state"
    /\ RefreshDeviceState(connected, has_controller)
    /\ UNCHANGED <<connected, has_controller, state_refresh_job,
                   refresh_timer, after_queue>>
    /\ PollerFrame

\* The 3-second callback fires: _auto_device_state_refresh returns when not
\* connected, else refreshes and schedules itself again.
tk_auto_device_state_refresh ==
    /\ gui = "tk"
    /\ refresh_timer
    /\ last' = "auto_device_state_refresh"
    /\ IF ~connected
       THEN /\ refresh_timer' = FALSE
            /\ UNCHANGED <<state_refresh_in_progress, refreshers,
                           state_refresh_job>>
       ELSE /\ RefreshDeviceState(connected, has_controller)
            /\ ScheduleDeviceStateRefresh(connected)
    /\ UNCHANGED <<connected, has_controller, after_queue>>
    /\ PollerFrame

\* _refresh_device_state_worker: get_device_state() returned or raised; the
\* label update is posted with root.after(0, ...).
refresher_run ==
    \E r \in 1..MaxRefreshers, raised \in BOOLEAN :
      /\ gui = "tk"
      /\ refreshers[r] = "run"
      /\ last' = "refresher"
      /\ after_queue' =
           Append(after_queue, IF raised THEN "label_error" ELSE "label")
      /\ refreshers' = [refreshers EXCEPT ![r] = "finally"]
      /\ UNCHANGED <<connected, has_controller, state_refresh_in_progress,
                     state_refresh_job, refresh_timer>>
      /\ PollerFrame

\* finally: root.after(0, self._state_refresh_done)
refresher_finally ==
    \E r \in 1..MaxRefreshers :
      /\ gui = "tk"
      /\ refreshers[r] = "finally"
      /\ last' = "refresher"
      /\ after_queue' = Append(after_queue, "done")
      /\ refreshers' = [refreshers EXCEPT ![r] = "exit"]
      /\ UNCHANGED <<connected, has_controller, state_refresh_in_progress,
                     state_refresh_job, refresh_timer>>
      /\ PollerFrame

\* The thread function has returned.
refresher_exit ==
    \E r \in 1..MaxRefreshers :
      /\ gui = "tk"
      /\ refreshers[r] = "exit"
      /\ last' = "refresher"
      /\ refreshers' = [refreshers EXCEPT ![r] = "none"]
      /\ UNCHANGED <<connected, has_controller, state_refresh_in_progress,
                     state_refresh_job, refresh_timer, after_queue>>
      /\ PollerFrame

\* The Tk main loop runs the oldest posted callback: a label update, or
\* _state_refresh_done (state_refresh_in_progress = False).
tk_after_callback ==
    /\ gui = "tk"
    /\ after_queue # <<>>
    /\ last' = "after_callback"
    /\ after_queue' = Tail(after_queue)
    /\ IF Head(after_queue) = "done"
       THEN state_refresh_in_progress' = FALSE
       ELSE UNCHANGED state_refresh_in_progress
    /\ UNCHANGED <<connected, has_controller, state_refresh_job,
                   refresh_timer, refreshers>>
    /\ PollerFrame

RefreshInit == CtrlInit /\ GuiInit /\ RestInit /\ gui = "tk"

RefreshNext ==
    \/ tk_connect
    \/ tk_disconnect
    \/ tk_refresh_device_state
    \/ tk_auto_device_state_refresh
    \/ refresher_run
    \/ refresher_finally
    \/ refresher_exit
    \/ tk_after_callback

RefreshSpec == RefreshInit /\ [][RefreshNext]_vars

\* ------------------------------------------------------- sweep generation
\* What the user can have put into the sweep controls. The Tk entries take
\* any number (and any text: "text" stands for a field float() or the Tk
\* variable cannot read); the Qt spin boxes keep start and stop in
\* [0.001, 3000], step in [0.000001, 100] and toggle_every in [1, 10000].
\* Stops are a whole MHz, or 0.5 or 0.9 MHz past one.
SweepStarts == {10 * m : m \in 1..MaxSweepMHz}
SweepStops == {10 * m + d : m \in 1..MaxSweepMHz, d \in {0, 5, 9}}
SweepSteps(g) ==
    {10 * k : k \in 1..MaxSweepStep} \cup (IF g = "tk" THEN {-10, 0} ELSE {})
SweepToggles(g) == (1..MaxToggle) \cup (IF g = "tk" THEN {0} ELSE {})

SweepPanels(g) ==
    [start : SweepStarts, stop : SweepStops, step : SweepSteps(g),
     base_level : {-20}, alt_enabled : BOOLEAN, alt_level : {-30},
     toggle_every : SweepToggles(g),
     reverse : (IF g = "qt" THEN BOOLEAN ELSE {FALSE}),
     replace : BOOLEAN]

\* Variant: the stop value itself is left out.
SweepContinuesExclusive(current, stop, step, ascending) ==
    IF ascending THEN current < stop ELSE current > stop

\* Variant: the tolerance is half a step.
SweepContinuesHalfStep(current, stop, step, ascending) ==
    IF ascending THEN 2 * current <= 2 * stop + step
    ELSE 2 * current >= 2 * stop - step

\* while (current <= stop + eps) if ascending else (current >= stop - eps),
\* eps = step / 10.0, compared in tenths of eps.
SweepContinues(current, stop, step, ascending) ==
    IF ascending THEN 10 * current <= 10 * stop + step
    ELSE 10 * current >= 10 * stop - step

\* The frequencies of the forward list from current on; round(current, 6)
\* leaves a whole number of tenths as it is.
RECURSIVE SweepPoints(_, _, _, _)
SweepPoints(current, stop, step, ascending) ==
    IF SweepContinues(current, stop, step, ascending)
    THEN <<current>> \o
         SweepPoints(IF ascending THEN current + step ELSE current - step,
                     stop, step, ascending)
    ELSE <<>>

\* Variant: the level changes with every point.
SweepLevelEveryPoint(p, idx) ==
    IF p.alt_enabled /\ idx % 2 = 1 THEN p.alt_level ELSE p.base_level

\* block = (idx // toggle_every) % 2; alt_level if block == 1 else base_level
SweepLevel(p, idx) ==
    IF p.alt_enabled /\ (idx \div p.toggle_every) % 2 = 1
    THEN p.alt_level ELSE p.base_level

\* The forward list for the controls p, entries carrying the profile bw.
SweepForward(p, bw) ==
    LET pts == SweepPoints(p.start, p.stop, p.step, p.stop >= p.start) IN
    [i \in 1..Len(pts) |->
        [frequency |-> pts[i], level |-> SweepLevel(p, i - 1), bandwidth |-> bw]]

\* list(reversed(q))
Reversed(q) == [i \in 1..Len(q) |-> q[Len(q) + 1 - i]]

\* Variant: the whole forward list is run backwards.
PingPongWithEnds(fwd) ==
    IF Len(fwd) > 2 THEN fwd \o Reversed(fwd) ELSE fwd

\* if self.sweep_reverse.isChecked() and len(forward) > 2:
\*     entries.extend(list(reversed(forward[1:-1])))
PingPong(fwd) ==
    IF Len(fwd) > 2
    THEN fwd \o Reversed(SubSeq(fwd, 2, Len(fwd) - 1))
    ELSE fwd

\* if step <= 0: error, return; if toggle_every < 1: error, return
SweepRejected(p) == p.step <= 0 \/ p.toggle_every < 1

\* Variant: the rejection shows nothing.
SweepRejectionSilent(p) == "none"

\* messagebox.showerror("Error", ...) / self._err("Sweep", ...), modal
SweepRejectionDialog(p) == "error"

\* Variant: the generated entries go in front of the old ones.
SweepResultInFront(replace, old, entries) ==
    IF replace THEN entries ELSE entries \o old

\* if replace: self.playlist = entries, else: self.playlist.extend(entries)
SweepResult(replace, old, entries) ==
    IF replace THEN entries ELSE old \o entries

\* What a list-building step leaves alone.
BuilderFrame ==
    /\ UNCHANGED <<gui, connected, has_controller, transmitting,
                   playlist_running, current_playlist_index,
                   active_hop_playlist, workers, timer_active, hop_last_bw,
                   auto_mod>>
    /\ Quiet
    /\ SessionFrame
    /\ CtrlFrame
    /\ PollFrame

\* _generate_sweep_playlist: the two parameter checks, the forward list,
\* the ping-pong tail (Qt), then replace or extend the live playlist.
generate_sweep_playlist ==
    /\ gui \in {"tk", "qt"}
    /\ last' = "generate_sweep_playlist"
    /\ LET p == sweep_panel
           fwd == SweepForward(p, panel.bandwidth)
           entries == IF gui = "qt" /\ p.reverse THEN PingPong(fwd) ELSE fwd
       IN IF SweepRejected(p)
          THEN /\ dialog' = SweepRejectionDialog(p)
               /\ forward' = <<>> /\ generated' = <<>>
               /\ UNCHANGED playlist
          ELSE IF fwd = <<>>
          THEN /\ dialog' = "warning"
               /\ forward' = <<>> /\ generated' = <<>>
               /\ UNCHANGED playlist
          ELSE /\ dialog' = "none"
               /\ forward' = fwd
               /\ generated' = entries
               /\ playlist' = SweepResult(p.replace, playlist, entries)
               /\ Len(playlist') <= MaxListLen
    /\ UNCHANGED <<panel, sweep_panel>>
    /\ BuilderFrame

SweepInit ==
    /\ CtrlInit /\ GuiInit /\ LockInit /\ PollInit /\ BandInit
    /\ gui \in {"tk", "qt"}
    /\ panel = PanelDefaults
    /\ sweep_panel \in SweepPanels(gui)
    /\ forward = <<>>
    /\ generated = <<>>
    /\ dialog = "none"

SweepNext ==
    \/ add_to_playlist
    \/ clear_playlist
    \/ generate_sweep_playlist

SweepSpec == SweepInit /\ [][SweepNext]_vars

\* --------------------------------------------- panel, files and the list
\* A profile name that is no key of BANDWIDTHS.
UnknownBandwidth == "50 kHz"

\* What the frequency control can hold, in MHz: the Tk entry takes any
\* number typed into it, the Qt spin box has the range [0.001, 3000].
PanelFrequencies(g) == IF g = "tk" THEN {0, 144} ELSE {1, 144}

\* presets.json as json.load returns it: no field is validated.
Presets ==
    [frequency : {144}, level : {-20},
     bandwidth : {"25 kHz", UnknownBandwidth}]

\* The user types a frequency into the Tk entry bound to freq_var.
tk_set_freq_var ==
    /\ gui = "tk"
    /\ \E f \in PanelFrequencies("tk") \ {panel.frequency} :
         panel' = [panel EXCEPT !.frequency = f]
    /\ last' = "set_freq_var"
    /\ UNCHANGED <<playlist, sweep_panel, forward, generated, dialog>>
    /\ BuilderFrame

\* SMY02GUI._load_preset: freq_var, level_var and bw_var take the preset's
\* values as they are.
tk_load_preset ==
    /\ gui = "tk"
    /\ \E preset \in Presets :
         panel' = [frequency |-> preset.frequency, level |-> preset.level,
                   bandwidth |-> preset.bandwidth]
    /\ last' = "load_preset"
    /\ UNCHANGED <<playlist, sweep_panel, forward, generated, dialog>>
    /\ BuilderFrame

\* The user sets the Qt frequency spin box.
qt_set_freq_mhz ==
    /\ gui = "qt"
    /\ \E f \in PanelFrequencies("qt") \ {panel.frequency} :
         panel' = [panel EXCEPT !.frequency = f]
    /\ last' = "set_freq_mhz"
    /\ UNCHANGED <<playlist, sweep_panel, forward, generated, dialog>>
    /\ BuilderFrame

\* SMY02QtGUI._bw_checked: one of the profile boxes is ticked, the others
\* are cleared; _selected_bw returns its name.
qt_bw_checked ==
    /\ gui = "qt"
    /\ \E name \in BandwidthNames \ {panel.bandwidth} :
         panel' = [panel EXCEPT !.bandwidth = name]
    /\ last' = "bw_checked"
    /\ UNCHANGED <<playlist, sweep_panel, forward, generated, dialog>>
    /\ BuilderFrame

\* _add_to_playlist / _add_current with the controls as they stand:
\* frequency, level and profile name go into the entry unexamined.
add_current ==
    /\ gui \in {"tk", "qt"}
    /\ Len(playlist) < MaxPlaylist
    /\ playlist' = Append(playlist,
                          [frequency |-> panel.frequency, level |-> panel.level,
                           bandwidth |-> panel.bandwidth])
    /\ last' = "add_current"
    /\ UNCHANGED listVars
    /\ BuilderFrame

\* list.insert(idx, x), idx 0-based
Insert(list, idx, x) ==
    SubSeq(list, 1, idx) \o <<x>> \o SubSeq(list, idx + 1, Len(list))

\* SMY02GUI._clone_selected_playlist_entry: dict(source) goes in right
\* after the selected row (only the name, not modelled, differs).
tk_clone_selected_playlist_entry ==
    /\ gui = "tk"
    /\ Len(playlist) < MaxPlaylist
    /\ \E idx \in 0..(Len(playlist) - 1) :
         playlist' = Insert(playlist, idx + 1, playlist[idx + 1])
    /\ last' = "clone_selected_playlist_entry"
    /\ UNCHANGED listVars
    /\ BuilderFrame

\* The frequency cell of a CSV row as text; "" is an empty cell.
CsvCells == {"", "0", "145"}

\* float(text) on the cells above.
ParseFloat(text) ==
    CASE text = "0" -> 0
      [] text = "145" -> 145

CsvRows == [frequency : CsvCells, bandwidth : {UnknownBandwidth}]

\* The rows of a file: 1..MaxFileRows of them.
FilesOf(rows) ==
    UNION {[1..n -> rows] : n \in 1..MaxFileRows}

\* The import loop: rows without a frequency are skipped, float() of the
\* cell, level -20.0 when the row has none, an unknown profile name becomes
\* "12.5 kHz".
CsvImported(file) ==
    LET kept == SelectSeq(file, LAMBDA row : row.frequency # "") IN
    [i \in 1..Len(kept) |->
        [frequency |-> ParseFloat(kept[i].frequency), level |-> -20,
         bandwidth |-> NormalizeBw(kept[i].bandwidth)]]

\* SMY02GUI._import_playlist_csv: a warning when no row is left, else the
\* rows replace the list (a non-empty list and "yes") or extend it.
tk_import_playlist_csv ==
    /\ gui = "tk"
    /\ \E file \in FilesOf(CsvRows), replace \in BOOLEAN :
         LET imported == CsvImported(file) IN
         IF imported = <<>>
         THEN dialog' = "warning" /\ UNCHANGED playlist
         ELSE /\ dialog' = "info"
              /\ playlist' = (IF playlist # <<>> /\ replace THEN imported
                              ELSE playlist \o imported)
              /\ Len(playlist') <= MaxPlaylist
    /\ last' = "import_playlist_csv"
    /\ UNCHANGED <<panel, sweep_panel, forward, generated>>
    /\ BuilderFrame

\* The items of a playlist JSON file.
JsonItems == [frequency : {0, 145}, bandwidth : {UnknownBandwidth}]

\* _load_playlist_json / _load_playlist: float(item["frequency"]), level
\* -20.0 when absent; the Tk loader turns an unknown profile name into
\* "12.5 kHz", the Qt loader keeps the string. The result replaces the list.
load_playlist ==
    /\ gui \in {"tk", "qt"}
    /\ \E file \in FilesOf(JsonItems) :
         playlist' =
           [i \in 1..Len(file) |->
               [frequency |-> file[i].frequency, level |-> -20,
                bandwidth |-> IF gui = "tk" THEN NormalizeBw(file[i].bandwidth)
                              ELSE file[i].bandwidth]]
    /\ dialog' = (IF gui = "tk" THEN "info" ELSE dialog)
    /\ last' = "load_playlist"
    /\ UNCHANGED <<panel, sweep_panel, forward, generated>>
    /\ BuilderFrame

ListModelInit ==
    /\ CtrlInit /\ GuiInit /\ LockInit /\ PollInit /\ ListInit /\ BandInit
    /\ gui \in {"tk", "qt"}

\* The list model: the frequency control, every handler that puts entries
\* into the list, and the Tk session with its snapshot.
ListNext ==
    \/ tk_set_freq_var
    \/ qt_set_freq_mhz
    \/ add_current
    \/ tk_clone_selected_playlist_entry
    \/ tk_import_playlist_csv
    \/ load_playlist
    \/ generate_sweep_playlist
    \/ clear_playlist
    \/ gui_connect
    \/ tk_start_hopping
    \/ worker_start
    \/ worker_cycle
    \/ worker_dwell
    \/ worker_finally

ListSpec == ListModelInit /\ [][ListNext]_vars

\* The profile model: the ways a profile name gets into the panel and into
\* the list, and both schedulers applying the entries.
ProfileNext ==
    \/ tk_load_preset
    \/ qt_bw_checked
    \/ add_current
    \/ load_playlist
    \/ clear_playlist
    \/ gui_connect
    \/ tk_start_hopping
    \/ worker_start
    \/ worker_cycle
    \/ worker_dwell
    \/ worker_finally
    \/ qt_start_hopping
    \/ qt_hop_timer

ProfileSpec == ListModelInit /\ [][ProfileNext]_vars

\* ------------------------------------------------------ the bandwidth step
\* The step's calls hold a set_modulation_fm.
FmCalled(log) == \E k \in 1..Len(log) : log[k].call = "set_modulation_fm"

\* The deviation handed to it.
FmArg(log) ==
    log[CHOOSE k \in 1..Len(log) : log[k].call = "set_modulation_fm"].arg

\* The instrument after the step's calls: a set_modulation_fm that returns
\* True has written its deviation, one that returns False has not.
DeviceAfter(log) ==
    IF FmCalled(log)
    THEN \E ok \in BOOLEAN :
           device_fm' = (IF ok THEN FmArg(log) ELSE device_fm)
    ELSE UNCHANGED device_fm

\* The Tk cycle got past set_frequency and set_amplitude and raised nothing.
TkReached ==
    /\ hop_error' = "none"
    /\ Len(hop_log') >= 2
    /\ hop_log'[1].res = "ok"
    /\ hop_log'[2].res = "ok"

\* One pass of the hopping thread's loop, with the instrument: the profile
\* step is skipped when the entry's name equals last_bw.
worker_cycle_device ==
    \E w \in 1..MaxWorkers :
      /\ WorkerLoop(w)
      /\ DeviceAfter(hop_log')
      /\ band_skip' =
           (IF TkReached /\ ~FmCalled(hop_log')
            THEN HopSequence(w)[current_playlist_index + 1].bandwidth
            ELSE "None")

\* _hop_once for the entry at idx, with the instrument: without auto-mod
\* the profile step is skipped when the name equals _hop_last_bw.
QtDevice(idx) ==
    /\ DeviceAfter(hop_log')
    /\ band_skip' =
         (IF hop_log' # <<>> /\ ~auto_mod /\ ~FmCalled(hop_log')
          THEN NormalizeBw(playlist[idx + 1].bandwidth)
          ELSE "None")

qt_start_hopping_device == QtStartHopping /\ QtDevice(0)

qt_hop_timer_device == QtHopTimer /\ QtDevice(current_playlist_index)

\* A handler outside the schedulers that may call set_modulation_fm.
ManualFrame ==
    /\ band_skip' = "None"
    /\ SessionFrame
    /\ UNCHANGED <<gui, connected, has_controller, transmitting, playlist,
                   playlist_running, current_playlist_index,
                   active_hop_playlist, workers, timer_active, hop_last_bw,
                   auto_mod>>
    /\ WireFrame
    /\ ListFrame
    /\ PollFrame

\* SMY02GUI._set_bandwidth (a profile picked in the combo box):
\* _apply_bandwidth(bw_var); a KeyError is logged.
tk_set_bandwidth ==
    /\ gui = "tk"
    /\ last' = "set_bandwidth"
    /\ IF ~connected
       THEN Quiet
       ELSE IF TkProfileMissing(panel.bandwidth)
       THEN Calls(<<>>) /\ hop_error' = "KeyError"
       ELSE /\ Calls(<<Call("set_modulation_fm",
                            Bandwidths(panel.bandwidth), "-")>>)
            /\ hop_error' = "none"
    /\ DeviceAfter(hop_log')
    /\ ManualFrame

\* SMY02QtGUI._set_bandwidth (the Set button): set_modulation_fm with the
\* profile of the combo box.
qt_set_bandwidth ==
    /\ gui = "qt"
    /\ last' = "set_bandwidth"
    /\ IF ~connected \/ ~has_controller
       THEN Quiet
       ELSE \E name \in BandwidthNames :
              /\ Calls(<<Call("set_modulation_fm",
                              Bandwidths(NormalizeBw(name)), "-")>>)
              /\ hop_error' = "none"
    /\ DeviceAfter(hop_log')
    /\ ManualFrame

\* The bandwidth model: a list, a connection, the two schedulers with the
\* instrument's deviation, and the manual profile change.
BandNext ==
    \/ add_to_playlist
    \/ gui_connect
    \/ tk_load_preset
    \/ tk_start_hopping
    \/ worker_start
    \/ worker_cycle_device
    \/ worker_dwell
    \/ worker_finally
    \/ qt_start_hopping_device
    \/ qt_hop_timer_device
    \/ qt_stop_hopping
    \/ tk_set_bandwidth
    \/ qt_set_bandwidth

BandSpec == HopInit /\ [][BandNext]_vars

\* ------------------------------------------- threads inside the controller
\* Several threads (the Tk main thread, the hopping thread, the refresh
\* thread) call methods of one controller. Each method is followed from its
\* entry to its return through the lock operations and the instrument
\* exchanges it makes.
LockOps ==
    {"connect", "disconnect", "set_frequency", "get_frequency",
     "get_amplitude", "enable_output", "get_device_state"}

\* Methods that begin with 'if not self.instrument: return ...', before
\* the lock is asked for.
EntryChecked == {"set_frequency", "enable_output", "get_device_state"}

\* The keys of the dict get_device_state fills, in order.
StateFields == <<"rf", "level", "fm", "af">>

\* The fallback queries after the locked block of get_frequency /
\* get_amplitude.
FallbackQueries(name) ==
    IF name = "get_frequency" THEN <<"SOUR:FREQ?", "FREQ?">>
    ELSE <<"SOUR:POW?", "POW?">>

\* RLock.acquire by thread t: free, or already owned by t.
CanAcquire(t) == io_lock.owner \in {0, t}

Acquired(t) == [owner |-> t, count |-> io_lock.count + 1]

\* Leaving n nested 'with self._io_lock' blocks.
Released(n) ==
    IF io_lock.count <= n THEN [owner |-> 0, count |-> 0]
    ELSE [io_lock EXCEPT !.count = io_lock.count - n]

\* Thread t is inside instrument.write / instrument.query.
InExchange(t) ==
    threads[t].pc \in {"io", "io_esr", "io_fallback", "io_cls", "io_cand",
                       "io_status", "io_state"}

\* Variant: the finally clause leaves the timeout as it is.
RestoredTimeoutKept(t) == timeout

\* finally: self.instrument.timeout = old_timeout
RestoredTimeout(t) == threads[t].old_timeout

\* old_timeout = self.instrument.timeout; self.instrument.timeout = ms
ShortTimeout(t, ms, where) ==
    /\ threads' = [threads EXCEPT ![t].pc = where, ![t].old_timeout = timeout]
    /\ timeout' = ms

Move(t, where) == threads' = [threads EXCEPT ![t].pc = where]

Leave(t) == threads' = [threads EXCEPT ![t] = NoThread]

\* What a step of these threads leaves alone.
LockFrame ==
    /\ UNCHANGED <<fm_initialized, modulation_mode, callVars, linkVars,
                   initVars, hopVars, pollVars, listVars, bandVars>>

\* A thread calls a method. set_frequency, enable_output and
\* get_device_state return at once without an instrument ('if not
\* self.instrument: return ...').
thread_call ==
    \E t \in 1..MaxThreads, name \in LockOps :
      /\ gui = "none"
      /\ threads[t].pc = "idle"
      /\ name \in EntryChecked => instrument
      /\ threads' = [threads EXCEPT ![t] = [NoThread EXCEPT !.op = name,
                                                            !.pc = "enter"]]
      /\ UNCHANGED <<instrument, idn, model, io_lock, timeout>>
      /\ LockFrame

\* with self._io_lock:
thread_acquire ==
    \E t \in 1..MaxThreads :
      /\ threads[t].pc = "enter"
      /\ CanAcquire(t)
      /\ io_lock' = Acquired(t)
      /\ Move(t, "locked")
      /\ UNCHANGED <<instrument, idn, model, timeout>>
      /\ LockFrame

\* connect: open_resource, timeout = 5000, then the *IDN? query begins.
thread_connect_open ==
    \E t \in 1..MaxThreads :
      /\ threads[t].op = "connect" /\ threads[t].pc = "locked"
      /\ \/ /\ instrument' = TRUE
            /\ timeout' = ConnectTimeout
            /\ Move(t, "io")
            /\ UNCHANGED io_lock
         \/ \* open_resource raises
            /\ UNCHANGED <<instrument, timeout>>
            /\ io_lock' = Released(1)
            /\ Leave(t)
      /\ UNCHANGED <<idn, model>>
      /\ LockFrame

\* connect: the *IDN? query is answered or raises.
thread_connect_idn ==
    \E t \in 1..MaxThreads :
      /\ threads[t].op = "connect" /\ threads[t].pc = "io"
      /\ \/ \E answer \in IdnAnswers :
              idn' = answer /\ model' = ModelOf(answer)
         \/ UNCHANGED <<idn, model>>
      /\ io_lock' = Released(1)
      /\ Leave(t)
      /\ UNCHANGED <<instrument, timeout>>
      /\ LockFrame

\* disconnect: close and forget the handle, under the lock.
thread_disconnect ==
    \E t \in 1..MaxThreads :
      /\ threads[t].op = "disconnect" /\ threads[t].pc = "locked"
      /\ instrument' = FALSE
      /\ io_lock' = Released(1)
      /\ Leave(t)
      /\ UNCHANGED <<idn, model, timeout, callVars, linkVars, hopVars,
                     pollVars, listVars, bandVars>>
      /\ IF instrument
         THEN /\ fm_initialized' = FALSE
              /\ modulation_mode' = "None"
              /\ initsNoTrip' = 0 /\ inits_smy' = 0
         ELSE UNCHANGED <<fm_initialized, modulation_mode, initVars>>

\* set_frequency: the write begins.
thread_set_write ==
    \E t \in 1..MaxThreads :
      /\ threads[t].op = "set_frequency" /\ threads[t].pc = "locked"
      /\ IF instrument
         THEN Move(t, "io") /\ UNCHANGED io_lock
         ELSE \* the handle is gone: the write raises
              Leave(t) /\ io_lock' = Released(1)
      /\ UNCHANGED <<instrument, idn, model, timeout>>
      /\ LockFrame

\* set_frequency: the write is over. It raised, or the identity is SMY02
\* (return True), or get_esr() follows: 'if not self.instrument: return
\* None', else the nested 'with self._io_lock' and the *ESR? query.
thread_set_written ==
    \E t \in 1..MaxThreads, raised \in BOOLEAN :
      /\ threads[t].op = "set_frequency" /\ threads[t].pc = "io"
      /\ IF raised \/ is_smy02 \/ ~instrument
         THEN io_lock' = Released(1) /\ Leave(t) /\ UNCHANGED timeout
         ELSE io_lock' = Acquired(t) /\ ShortTimeout(t, EsrTimeout, "io_esr")
      /\ UNCHANGED <<instrument, idn, model>>
      /\ LockFrame

\* set_frequency: the *ESR? query is over, answered or not; the timeout
\* is put back and both blocks are left.
thread_set_esr ==
    \E t \in 1..MaxThreads :
      /\ threads[t].pc = "io_esr"
      /\ timeout' = RestoredTimeout(t)
      /\ io_lock' = Released(2)
      /\ Leave(t)
      /\ UNCHANGED <<instrument, idn, model>>
      /\ LockFrame

\* get_frequency / get_amplitude: the RF? / LEVEL? query begins inside the
\* locked block; without a handle it raises and the block is left.
thread_get_query ==
    \E t \in 1..MaxThreads :
      /\ threads[t].op \in {"get_frequency", "get_amplitude"}
      /\ threads[t].pc = "locked"
      /\ IF instrument
         THEN Move(t, "io") /\ UNCHANGED io_lock
         ELSE /\ io_lock' = Released(1)
              /\ threads' = [threads EXCEPT ![t].pc = "fallback", ![t].qi = 1]
      /\ UNCHANGED <<instrument, idn, model, timeout>>
      /\ LockFrame

\* get_frequency / get_amplitude: the query is over. A token that parses is
\* returned; an exception or an answer without a number leaves the block
\* for the fallback loop.
thread_get_answer ==
    \E t \in 1..MaxThreads, parsed \in BOOLEAN :
      /\ threads[t].op \in {"get_frequency", "get_amplitude"}
      /\ threads[t].pc = "io"
      /\ io_lock' = Released(1)
      /\ IF parsed
         THEN Leave(t)
         ELSE threads' = [threads EXCEPT ![t].pc = "fallback", ![t].qi = 1]
      /\ UNCHANGED <<instrument, idn, model, timeout>>
      /\ LockFrame

\* The fallback loop, after the 'with' block (for query in (...): response
\* = self.instrument.query(query)): the next query begins with no lock
\* taken, or (no handle) raises.
thread_fallback_query ==
    \E t \in 1..MaxThreads :
      /\ threads[t].pc = "fallback"
      /\ IF instrument
         THEN Move(t, "io_fallback")
         ELSE IF threads[t].qi < Len(FallbackQueries(threads[t].op))
         THEN threads' = [threads EXCEPT ![t].qi = @ + 1]
         ELSE Leave(t)
      /\ UNCHANGED <<instrument, idn, model, io_lock, timeout>>
      /\ LockFrame

\* The fallback query is over: float(response) is returned, or the loop
\* continues with the next query, or the method returns None.
thread_fallback_answer ==
    \E t \in 1..MaxThreads, parsed \in BOOLEAN :
      /\ threads[t].pc = "io_fallback"
      /\ IF parsed THEN Leave(t)
         ELSE IF threads[t].qi < Len(FallbackQueries(threads[t].op))
         THEN threads' = [threads EXCEPT ![t].pc = "fallback", ![t].qi = @ + 1]
         ELSE Leave(t)
      /\ UNCHANGED <<instrument, idn, model, io_lock, timeout>>
      /\ LockFrame

\* enable_output, loop head: clear_status() returns False without a
\* handle and the candidate write then raises into 'except: return False';
\* with a handle it takes the lock again and writes *CLS.
thread_enable_clear ==
    \E t \in 1..MaxThreads :
      /\ threads[t].op = "enable_output" /\ threads[t].pc = "locked"
      /\ IF instrument
         THEN io_lock' = Acquired(t) /\ Move(t, "io_cls")
         ELSE io_lock' = Released(1) /\ Leave(t)
      /\ UNCHANGED <<instrument, idn, model, timeout>>
      /\ LockFrame

\* The *CLS write is over (an exception stays inside clear_status);
\* sleep(0.1) follows.
thread_enable_cleared ==
    \E t \in 1..MaxThreads :
      /\ threads[t].pc = "io_cls"
      /\ io_lock' = Released(1)
      /\ Move(t, "cleared")
      /\ UNCHANGED <<instrument, idn, model, timeout>>
      /\ LockFrame

\* self.instrument.write(cmd) begins.
thread_enable_write ==
    \E t \in 1..MaxThreads :
      /\ threads[t].pc = "cleared"
      /\ Move(t, "io_cand")
      /\ UNCHANGED <<instrument, idn, model, io_lock, timeout>>
      /\ LockFrame

\* The candidate write is over: it raised ('except: return False'), or
\* sleep(0.2) follows.
thread_enable_written ==
    \E t \in 1..MaxThreads, raised \in BOOLEAN :
      /\ threads[t].pc = "io_cand"
      /\ IF raised
         THEN io_lock' = Released(1) /\ Leave(t)
         ELSE UNCHANGED io_lock /\ Move(t, "written")
      /\ UNCHANGED <<instrument, idn, model, timeout>>
      /\ LockFrame

\* get_esr() after the candidate: the lock again, the 500 ms timeout, and
\* the *ESR? query begins.
thread_enable_status ==
    \E t \in 1..MaxThreads :
      /\ threads[t].pc = "written"
      /\ io_lock' = Acquired(t)
      /\ ShortTimeout(t, EsrTimeout, "io_status")
      /\ UNCHANGED <<instrument, idn, model>>
      /\ LockFrame

\* The *ESR? query is over: the timeout is put back; the method returns
\* (status 0 or None, a benign code, or the last candidate) or goes on
\* with the next candidate.
thread_enable_answer ==
    \E t \in 1..MaxThreads, accepted \in BOOLEAN :
      /\ threads[t].pc = "io_status"
      /\ timeout' = RestoredTimeout(t)
      /\ IF accepted \/ threads[t].qi + 1 >= Len(EnableCandidates(is_smy02))
         THEN io_lock' = Released(2) /\ Leave(t)
         ELSE /\ io_lock' = Released(1)
              /\ threads' = [threads EXCEPT ![t].pc = "locked", ![t].qi = @ + 1]
      /\ UNCHANGED <<instrument, idn, model>>
      /\ LockFrame

\* get_device_state inside the lock: old_timeout = self.instrument.timeout
\* stands before the try, so without a handle the AttributeError leaves
\* the method; with one the timeout becomes 1000 ms.
thread_state_enter ==
    \E t \in 1..MaxThreads :
      /\ threads[t].op = "get_device_state" /\ threads[t].pc = "locked"
      /\ IF instrument
         THEN /\ threads' = [threads EXCEPT ![t].pc = "field", ![t].qi = 1,
                                            ![t].old_timeout = timeout]
              /\ timeout' = StateTimeout
              /\ UNCHANGED io_lock
         ELSE /\ io_lock' = Released(1)
              /\ Move(t, "raised")
              /\ UNCHANGED timeout
      /\ UNCHANGED <<instrument, idn, model>>
      /\ LockFrame

\* _query_first for the field in hand: its queries begin.
thread_state_query ==
    \E t \in 1..MaxThreads :
      /\ threads[t].pc = "field"
      /\ Move(t, "io_state")
      /\ UNCHANGED <<instrument, idn, model, io_lock, timeout>>
      /\ LockFrame

\* The field's queries are over, one answered or all timed out ("N/A"):
\* the next field, or after the last the finally clause and the return.
thread_state_answer ==
    \E t \in 1..MaxThreads :
      /\ threads[t].pc = "io_state"
      /\ IF threads[t].qi < Len(StateFields)
         THEN /\ threads' = [threads EXCEPT ![t].pc = "field", ![t].qi = @ + 1]
              /\ UNCHANGED <<io_lock, timeout>>
         ELSE /\ timeout' = RestoredTimeout(t)
              /\ io_lock' = Released(1)
              /\ Leave(t)
      /\ UNCHANGED <<instrument, idn, model>>
      /\ LockFrame

\* An exception that left the method reaches the caller.
thread_unwind ==
    \E t \in 1..MaxThreads :
      /\ threads[t].pc = "raised"
      /\ Leave(t)
      /\ UNCHANGED <<instrument, idn, model, io_lock, timeout>>
      /\ LockFrame

LockNext ==
    \/ thread_call
    \/ thread_acquire
    \/ thread_connect_open
    \/ thread_connect_idn
    \/ thread_disconnect
    \/ thread_set_write
    \/ thread_set_written
    \/ thread_set_esr
    \/ thread_get_query
    \/ thread_get_answer
    \/ thread_fallback_query
    \/ thread_fallback_answer
    \/ thread_enable_clear
    \/ thread_enable_cleared
    \/ thread_enable_write
    \/ thread_enable_written
    \/ thread_enable_status
    \/ thread_enable_answer
    \/ thread_state_enter
    \/ thread_state_query
    \/ thread_state_answer
    \/ thread_unwind

LockSpec == Init /\ [][LockNext]_vars

\* =================================================================== claims
Last(q) == q[Len(q)]

IsPrefix(a, b) == Len(a) <= Len(b) /\ a = SubSeq(b, 1, Len(a))

Returned == pc = "done"

CheckedOps == TryOps \cup {"enable_output"}

\* Every candidate was written and answered with a status that is neither
\* zero nor (for enable_output) one of 32 and 53.
AllRejected ==
    /\ Len(esrs) = Len(cands)
    /\ \A k \in 1..Len(esrs) :
         /\ esrs[k] \notin {NoEsr, 0}
         /\ op = "enable_output" => esrs[k] \notin {32, 53}

\* C1: when every candidate of enable_output or _try_commands_with_check was
\* written and answered with a nonzero, non-benign status, the call has
\* returned False and has written every candidate once, in list order.
C1_ExhaustedIsRejected ==
    (op \in CheckedOps /\ AllRejected) =>
        /\ Returned
        /\ ret = "False"
        /\ Payload(wire) = cands

C1_Witness ==
    /\ op = "enable_output" /\ ~is_smy02 /\ Returned
    /\ AllRejected /\ Len(cands) = 5

C3_BenignConfirms ==
    (/\ op = "enable_output" /\ is_smy02
     /\ esrs # <<>> /\ esrs[1] \in {32, 53}) =>
        /\ Returned
        /\ ret = "True"
        /\ wire = <<"*CLS", "OUTP ON", "*ESR?">>

C3_Witness ==
    /\ op = "enable_output" /\ is_smy02 /\ Returned
    /\ esrs = <<53>> /\ ret = "True"

\* The writes of a generic set_modulation_fm follow its list: tone setup,
\* a run of deviation candidates from the first on, then FM:ON at most once.
FmGenericInOrder(w) ==
    LET body == FmPreCmds \o DeviationCmds(arg) IN
    \/ IsPrefix(w, body)
    \/ /\ w # <<>> /\ Last(w) = "FM:ON"
       /\ IsPrefix(SubSeq(w, 1, Len(w) - 1), body)

\* C4: candidates go out in list order, each at most once, and a status of 0
\* ends the operation with success before any later candidate is written;
\* enable_output with its first candidate accepted returns True with OUTP ON
\* as the last command written.
C4_OrderedFirstSuccess ==
    /\ op \in CheckedOps => IsPrefix(Payload(wire), cands)
    /\ (op = "set_modulation_fm" /\ ~InitBranch(cands) /\ Len(cands) > 3) =>
          FmGenericInOrder(Payload(wire))
    /\ (op \in CheckedOps /\ esrs # <<>> /\ Last(esrs) = 0) =>
          /\ Returned /\ ret = "True"
          /\ Last(wire) = "*ESR?"
          /\ Payload(wire) = SubSeq(cands, 1, ci)
    /\ (op = "set_modulation_fm" /\ esrs # <<>> /\ Last(esrs) = 0) =>
          deviation_set /\ pc \in {"fmon", "done"}
    /\ (op = "enable_output" /\ esrs = <<0>>) =>
          Returned /\ ret = "True" /\ wire = <<"*CLS", "OUTP ON", "*ESR?">>

C4_Witness ==
    /\ op = "enable_output" /\ Returned /\ ret = "True"
    /\ esrs = <<0>> /\ Last(Payload(wire)) = "OUTP ON"

InitCmdSet == {"FM:INT 1.000E+3", "AF 1000", "FM:ON"}

FmCmdSet == {"FM:ON"} \cup {FmCmd(d) : d \in Deviations}
                      \cup {DeviationCmds(d)[k] : d \in Deviations, k \in 1..5}

\* C7: entered in mode AM, set_modulation_fm writes AM:OFF before any FM
\* enable or deviation command, and on success the mode is FM.
C7_AmExitFirst ==
    (op = "set_modulation_fm" /\ mode0 = "AM") =>
        /\ \A k \in 1..Len(wire) :
             wire[k] \in FmCmdSet => \E j \in 1..(k - 1) : wire[j] = "AM:OFF"
        /\ (Returned /\ ret = "True") => modulation_mode = "FM"

\* C8 as stated: set_modulation_am entered in mode AM writes nothing and the
\* mode stays AM; entered in FM it writes FM:OFF, then AM:ON.
C8_Original ==
    /\ (op = "set_modulation_am" /\ mode0 = "AM") =>
          wire = <<>> /\ modulation_mode = "AM"
    /\ (op = "set_modulation_am" /\ mode0 = "FM" /\ Returned /\ ret = "True") =>
          IsPrefix(<<"FM:OFF", "AM:ON">>, wire) /\ modulation_mode = "AM"

\* C8 amended: whatever the tracked mode, AM included, set_modulation_am
\* writes FM:OFF and then AM:ON (the generic branch goes on with AM ON and
\* AM:STAT ON); when it returns True the mode is AM, when it returns False
\* the mode is what it was.
C8_AmAlwaysWrites ==
    op = "set_modulation_am" =>
        /\ IsPrefix(wire, AmCmds(is_smy02))
        /\ IsPrefix(<<"FM:OFF", "AM:ON">>, AmCmds(is_smy02))
        /\ (Returned /\ ret = "True") =>
              wire = AmCmds(is_smy02) /\ modulation_mode = "AM"
        /\ (Returned /\ ret = "False" /\ instrument) =>
              wire # <<>> /\ modulation_mode = mode0

C8_Witness ==
    /\ op = "set_modulation_am" /\ mode0 = "AM" /\ Returned /\ ret = "True"
    /\ wire = <<"FM:OFF", "AM:ON">>

\* Every deviation candidate of a generic set_modulation_fm was written and
\* answered with a nonzero status.
AllDeviationsRejected ==
    /\ op = "set_modulation_fm" /\ ~is_smy02 /\ Returned
    /\ Len(esrs) = 5
    /\ \A k \in 1..5 : esrs[k] \notin {NoEsr, 0}

C10_RejectedStartChangesNothing ==
    [][(last' = "start_hopping" /\ (playlist = <<>> \/ playlist_running))
        => /\ hop_calls' = 0
           /\ UNCHANGED <<workers, timer_active, playlist_running,
                          current_playlist_index, active_hop_playlist,
                          hop_last_bw, transmitting, wire>>]_vars

\* A start request was the last handler, on a connected front end with a
\* non-empty playlist, while a worker of the running session sits in its
\* dwell and no worker has just been created.
C10_Witness ==
    /\ gui = "tk"
    /\ last = "start_hopping"
    /\ connected
    /\ playlist # <<>>
    /\ playlist_running
    /\ \A w \in 1..MaxWorkers : workers[w].pc # "start"
    /\ \E w \in 1..MaxWorkers : workers[w].pc = "dwell"

\* ------------------------------------------------- hopping: shared notions
Alive == {w \in 1..MaxWorkers : workers[w].pc # "none"}

\* This step is a hop cycle of Tk thread w that issued controller calls.
TkCycleBy(w) ==
    /\ gui = "tk"
    /\ workers[w].pc = "loop"
    /\ workers'[w].pc \in {"dwell", "finally"}
    /\ hop_log' # <<>>

\* This step is a hop cycle of the Qt scheduler that issued controller calls.
QtCycle == gui = "qt" /\ last' \in {"start_hopping", "hop_timer"} /\ hop_log' # <<>>

Called(log, name) == \E k \in 1..Len(log) : log[k].call = name

EditNames == {"add_to_playlist", "remove_from_playlist", "clear_playlist"}

\* C11: at most one hopping worker thread is alive at any time.
C11_OneWorkerAlive == Cardinality(Alive) <= 1

\* C12 (its first half): a thread that was alive when _stop_hopping ran on
\* its running session begins no further cycle.
C12_NoCycleAfterStop ==
    [][\A w \in 1..MaxWorkers : workers[w].stopped => ~TkCycleBy(w)]_vars

\* C13: the i-th cycle of a session's worker writes the frequency of entry
\* i mod k of the k-entry snapshot the worker holds.
C13_SnapshotOrder ==
    [][\A w \in 1..MaxWorkers :
         TkCycleBy(w) =>
           hop_log'[1] \in
             {Call("set_frequency",
                   workers[w].hop_playlist[workers[w].n + 1].frequency, r) :
                r \in SetOutcomes}]_vars

\* C14: a Tk session walks the deep copy _start_hopping stored, not the live
\* list: an accepted start stores a copy of the playlist as it is then, the
\* thread reads that snapshot once, the sequence it holds never changes
\* while it lives, every cycle applies the entry of that sequence at the
\* current index, and no edit of the live playlist touches the snapshot or
\* any thread's sequence.
C14_EditsDoNotReachSession ==
    [][/\ (gui = "tk" /\ last' = "start_hopping" /\ workers' # workers)
            => active_hop_playlist' = playlist
       /\ \A w \in 1..MaxWorkers :
            /\ (workers[w].pc = "start" /\ workers'[w].pc = "loop")
                 => workers'[w].hop_playlist = active_hop_playlist
            /\ (workers[w].pc \in {"loop", "dwell", "finally"}
                 /\ workers'[w].pc # "none")
                 => workers'[w].hop_playlist = workers[w].hop_playlist
            /\ TkCycleBy(w)
                 => hop_log'[1].arg =
                      workers[w].hop_playlist[current_playlist_index + 1].frequency
       /\ (gui = "tk" /\ playlist' # playlist)
            => UNCHANGED <<active_hop_playlist, workers,
                           current_playlist_index>>]_vars

\* A thread has just applied an entry of its two-entry snapshot while the
\* live playlist, cleared during the run, is empty.
C14_Witness ==
    /\ gui = "tk"
    /\ last = "worker"
    /\ hop_log # <<>>
    /\ playlist = <<>>
    /\ \E w \in 1..MaxWorkers :
         /\ workers[w].pc = "dwell"
         /\ Len(workers[w].hop_playlist) = 2
         /\ hop_log[1].arg = workers[w].hop_playlist[2].frequency

\* C15: every fetch of an entry finds the current index inside the sequence
\* being hopped: no cycle of either scheduler raises IndexError.
C15_IndexValidAtFetch == hop_error # "IndexError"

\* The profile of the entry the Qt cycle of this step fetched, the profile
\* of the previous cycle's entry of the session ("None" in a first cycle),
\* and whether that previous cycle ran with auto-modulation checked.
QtCycleBw ==
    NormalizeBw(playlist[(IF last' = "start_hopping" THEN 0
                          ELSE current_playlist_index) + 1].bandwidth)

QtPrevBw == IF last' = "start_hopping" THEN "None" ELSE hop_prev_bw

QtPrevAuto == last' # "start_hopping" /\ hop_prev_auto

\* A Tk cycle that got as far as the profile step applies the profile
\* exactly when it differs from the profile of the thread's previous entry
\* (none before its first cycle).
TkProfileOnChange ==
    \A w \in 1..MaxWorkers :
      (TkCycleBy(w) /\ workers'[w].pc = "dwell")
        => (Called(hop_log', "set_modulation_fm")
            <=> HopSequence(w)[current_playlist_index + 1].bandwidth
                  # workers[w].prev_bw)

\* C16 (as stated): in a cycle with auto-modulation off, set_modulation_fm
\* is called if and only if the entry's profile differs from the profile of
\* the previous cycle's entry; a first cycle has no previous entry.
C16_Original ==
    [][/\ TkProfileOnChange
       /\ (QtCycle /\ ~auto_mod)
            => (Called(hop_log', "set_modulation_fm")
                <=> QtCycleBw # QtPrevBw)]_vars

\* C16 (amended): as above, and a Qt cycle that follows a cycle run with
\* auto-modulation checked applies the profile whatever it is.
C16_ProfileOnChange ==
    [][/\ TkProfileOnChange
       /\ (QtCycle /\ ~auto_mod)
            => (Called(hop_log', "set_modulation_fm")
                <=> (QtCycleBw # QtPrevBw \/ QtPrevAuto))]_vars

\* A Qt cycle with auto-modulation off has just skipped the profile step:
\* it is not the first of its session and its entry has the profile of the
\* entry before it.
C16_Witness ==
    /\ gui = "qt"
    /\ last = "hop_timer"
    /\ ~auto_mod
    /\ ~hop_prev_auto
    /\ Len(hop_log) >= 2
    /\ ~Called(hop_log, "set_modulation_fm")

\* C17: once enable_output has failed in a hopping session, no later cycle
\* of that session calls enable_output again.
C17_NoEnableRetry ==
    [][(/\ enable_failed
        /\ last' # "start_hopping"
        /\ (QtCycle \/ \E w \in 1..MaxWorkers : TkCycleBy(w)))
         => ~Called(hop_log', "enable_output")]_vars

\* The cycle of this step got False from set_frequency or set_amplitude.
SetFailed(log) ==
    \E k \in 1..Len(log) :
      log[k].call \in {"set_frequency", "set_amplitude"} /\ log[k].res # "ok"

SetFaulted(log) == \E k \in 1..Len(log) : log[k].res = "fault"

C19_OneExchangeAtATime ==
    Cardinality({t \in 1..MaxThreads : InExchange(t)}) <= 1

\* Refresh threads that have not yet posted their completion.
InFlight == {r \in 1..MaxRefreshers : refreshers[r] \in {"run", "finally"}}

RequestNames == {"connect", "refresh_device_state", "auto_device_state_refresh"}

\* C20: at most one device-state refresh worker is in flight, and a refresh
\* request (button, 3-second timer, connect) arriving while a refresh is in
\* progress starts no worker.
C20_OneRefreshInFlight ==
    [][/\ Cardinality(InFlight') <= 1
       /\ (gui = "tk" /\ state_refresh_in_progress /\ last' \in RequestNames)
            => refreshers' = refreshers]_vars

\* The button was pressed while a refresh thread was still at work (it has
\* its answer and has not yet posted its completion): nothing was started.
C20_Witness ==
    /\ gui = "tk"
    /\ last = "refresh_device_state"
    /\ connected
    /\ state_refresh_in_progress
    /\ Cardinality(InFlight) = 1
    /\ \E r \in 1..MaxRefreshers : refreshers[r] = "finally"

\* C21: once a write of the call in progress has raised, that call hands
\* nothing more to the instrument: no later candidate, no follow-up command.
C21_FailedWriteIsFatal ==
    [][(werr > 0 /\ pc # "done") => wire' = wire]_vars

\* C22: on an identity other than SMY02, enable_output with every candidate
\* answered by a nonzero status returns False, whatever the codes.
C22_BenignOnlyOnSmy02 ==
    (/\ op = "enable_output" /\ Returned /\ ~is_smy02
     /\ Len(esrs) = Len(cands)
     /\ \A k \in 1..Len(esrs) : esrs[k] \notin {0, NoEsr}) =>
        ret = "False"

\* ---------------------------------------------------- sweeps: shared notions
\* The last generation built an ascending forward list.
AscendingBuilt == forward # <<>> /\ sweep_panel.stop >= sweep_panel.start

\* floor((stop - start) / step + 1/10) + 1
SweepLength(p) == ((10 * (p.stop - p.start) + p.step) \div (10 * p.step)) + 1

\* C23 (as stated): an ascending forward list has floor((stop - start) /
\* step + 1/10) + 1 entries, begins with start and ends with stop.
C23_Original ==
    AscendingBuilt =>
        /\ Len(forward) = SweepLength(sweep_panel)
        /\ forward[1].frequency = sweep_panel.start
        /\ Last(forward).frequency = sweep_panel.stop

\* C23 (amended): an ascending forward list has that many entries, begins
\* with start and ends with start + (n - 1) * step, the last grid point not
\* beyond stop + step / 10; that is stop exactly when the span is a whole
\* number of steps.
C23_ForwardSweepShape ==
    AscendingBuilt =>
        LET p == sweep_panel
            n == Len(forward)
            last_f == Last(forward).frequency
        IN /\ n = SweepLength(p)
           /\ \A i \in 1..n : forward[i].frequency = p.start + (i - 1) * p.step
           /\ 10 * last_f <= 10 * p.stop + p.step
           /\ 10 * (last_f + p.step) > 10 * p.stop + p.step
           /\ (last_f = p.stop) <=> ((p.stop - p.start) % p.step = 0)

\* An ascending sweep of three points has been built whose span is not a
\* whole number of steps: its last entry is not stop.
C23_Witness ==
    /\ AscendingBuilt
    /\ last = "generate_sweep_playlist"
    /\ Len(forward) = 3
    /\ Last(forward).frequency # sweep_panel.stop

\* C24: with "Back and forth" set and a forward list of n > 2 points, the
\* generated list is the forward list followed by forward points n-1 down
\* to 2 as they are, 2n - 2 entries, the first and the last forward
\* frequency not repeated; with n <= 2 it is the forward list alone.
C24_PingPongShape ==
    (gui = "qt" /\ sweep_panel.reverse /\ forward # <<>>) =>
        LET n == Len(forward) IN
        IF n > 2
        THEN /\ Len(generated) = 2 * n - 2
             /\ \A i \in 1..n : generated[i] = forward[i]
             /\ \A k \in 1..(n - 2) : generated[n + k] = forward[n - k]
             /\ \A j \in (n + 1)..(2 * n - 2) :
                    generated[j].frequency \notin
                        {forward[1].frequency, forward[n].frequency}
        ELSE generated = forward

\* A back-and-forth sweep of four forward points has been generated: six
\* entries.
C24_Witness ==
    /\ gui = "qt" /\ sweep_panel.reverse
    /\ last = "generate_sweep_playlist"
    /\ Len(forward) = 4
    /\ Len(generated) = 6

C26_RejectedSweepIsInert ==
    [][(last' = "generate_sweep_playlist" /\ SweepRejected(sweep_panel)) =>
          /\ dialog' = "error"
          /\ playlist' = playlist
          /\ generated' = <<>>
          /\ wire' = wire
          /\ hop_calls' = hop_calls]_vars

\* A sweep with a step of zero or less, or blocks of less than one point,
\* has been rejected while the playlist held an entry.
C26_Witness ==
    /\ last = "generate_sweep_playlist"
    /\ SweepRejected(sweep_panel)
    /\ dialog = "error"
    /\ playlist # <<>>

\* ------------------------------------------------------ lists: shared notions
\* Every entry of the list has a frequency above zero.
FrequenciesPositive(list) ==
    \A i \in 1..Len(list) : list[i].frequency > 0

\* C27: every entry of the live playlist, of the session snapshot and of
\* the list a hopping thread walks has a frequency above zero, whatever
\* add-current, clone, import, load and sweep generation did before.
C27_FrequenciesPositive ==
    /\ FrequenciesPositive(playlist)
    /\ FrequenciesPositive(active_hop_playlist)
    /\ \A w \in 1..MaxWorkers : FrequenciesPositive(workers[w].hop_playlist)

\* The FM deviations of the BANDWIDTHS table.
TableDeviations == {Bandwidths(name) : name \in BandwidthNames}

\* C28: a scheduler step never fails on a profile name: every
\* set_modulation_fm it makes carries a deviation of the table, and no
\* KeyError is raised for a name outside it.
C28_ProfilesOfTheTable ==
    /\ hop_error # "KeyError"
    /\ \A k \in 1..Len(hop_log) :
           hop_log[k].call = "set_modulation_fm" =>
               hop_log[k].arg \in TableDeviations

\* ------------------------------------------------ controller: tested calls
\* A connect() step in which the resource opened and *IDN? was answered.
ConnectAnswered ==
    /\ Idle /\ op' = "connect"
    /\ wire' = <<"*IDN?">> /\ werr' = 0

\* C29: when the resource opens and *IDN? is answered, connect() returns
\* True, the instrument handle is set, the answer is stored as the identity
\* and the model is its second comma-separated field, "Unknown" when it
\* has only one.
C29_ConnectSuccess ==
    [][ConnectAnswered =>
          /\ pc' = "done" /\ ret' = "True"
          /\ instrument'
          /\ idn' \in IdnAnswers
          /\ model' = (IF Len(idn') > 1 THEN idn'[2] ELSE "Unknown")]_vars

\* connect() has returned True on an answer without a comma: the model is
\* "Unknown".
C29_Witness ==
    /\ op = "connect" /\ Returned /\ ret = "True"
    /\ instrument
    /\ idn = IdnBare
    /\ model = "Unknown"

\* C30: with a handle attached and no identity read, a set_frequency or
\* set_amplitude whose write went through and whose status came back 0
\* has returned True, and the command it wrote is "FREQ <f>.0", "POW <a>".
C30_TestedSetCommands ==
    (/\ op \in SetOps /\ Returned
     /\ instrument /\ idn = IdnEmpty /\ model = ""
     /\ werr = 0 /\ last_esr = 0) =>
        /\ ret = "True"
        /\ Payload(wire) =
             <<IF op = "set_frequency" THEN FreqCmd(arg) ELSE PowCmd(arg)>>

\* ------------------------------------------- controller: set path and status
\* The stored identity or model names the SMY02.
NamesSmy02 ==
    \/ Upper(model) = "SMY02"
    \/ \E k \in 1..Len(idn) : Upper(idn[k]) = "SMY02"

\* C31: on an SMY02 identity a returned set_frequency / set_amplitude has
\* written its one command, "RF <f>" or "LEVEL <a>", and nothing else, no
\* *CLS and no *ESR?, has read no status, and has returned True unless the
\* write raised.
C31_SmyFastPath ==
    (op \in SetOps /\ Returned /\ instrument /\ NamesSmy02) =>
        /\ wire = <<(IF op = "set_frequency" THEN "RF " ELSE "LEVEL ")
                      \o ToString(arg)>>
        /\ esrs = <<>>
        /\ last_esr = NoEsr
        /\ (werr = 0) <=> (ret = "True")
        /\ (werr # 0) <=> (ret = "False")

\* set_amplitude has returned True on the one-field identity "smy02" after
\* its single write.
C31_Witness ==
    /\ op = "set_amplitude" /\ Returned /\ instrument
    /\ idn = IdnBare
    /\ ret = "True"
    /\ wire = <<"LEVEL 10">>

\* C32: every status query of a call comes right after a candidate that was
\* itself written right after a *CLS: the status read belongs to that
\* candidate alone.
C32_ClearedBeforeCandidate ==
    \A k \in 1..Len(wire) :
        wire[k] = "*ESR?" =>
            /\ k >= 3
            /\ wire[k - 2] = "*CLS"
            /\ wire[k - 1] \notin {"*CLS", "*ESR?", "*IDN?"}

\* ---------------------------------------------- threads: candidates, state
\* Thread t is inside a verified candidate of enable_output: its *CLS has
\* begun and the candidate's status query is not over yet.
InCandidate(t) ==
    /\ threads[t].op = "enable_output"
    /\ threads[t].pc \in {"io_cls", "cleared", "io_cand", "written", "io_status"}

\* C33: while a thread is inside a verified candidate, between its *CLS and
\* the end of its status query, no other thread begins a write or a query
\* on the instrument.
C33_CandidateUninterrupted ==
    [][\A t \in 1..MaxThreads, u \in 1..MaxThreads :
          (t # u /\ InCandidate(t) /\ InCandidate(t)') =>
              ~(~InExchange(u) /\ InExchange(u)')]_vars

\* C34: get_device_state never raises: no thread is left by an exception
\* out of it, also when a disconnect ran between its entry test and its
\* lock.
C34_DeviceStateNeverRaises ==
    \A t \in 1..MaxThreads :
        ~(threads[t].op = "get_device_state" /\ threads[t].pc = "raised")

\* Thread t is between the timeout change and the finally clause of
\* get_esr or get_device_state.
InShortTimeout(t) == threads[t].pc \in {"io_esr", "io_status", "field", "io_state"}

\* C38: with a handle, the instrument's timeout is the 5000 ms of connect
\* except while a thread is inside get_esr or the try block of
\* get_device_state, and so whenever no thread holds the lock; inside, it
\* is that method's short timeout and the saved value is the 5000 ms.
C38_TimeoutRestored ==
    /\ (instrument /\ \A t \in 1..MaxThreads : ~InShortTimeout(t)) =>
           timeout = ConnectTimeout
    /\ (instrument /\ io_lock.owner = 0) => timeout = ConnectTimeout
    /\ \A t \in 1..MaxThreads :
           InShortTimeout(t) =>
               /\ io_lock.owner = t
               /\ threads[t].old_timeout = ConnectTimeout
               /\ timeout = (IF threads[t].op = "get_device_state"
                             THEN StateTimeout ELSE EsrTimeout)

\* A thread has come back from get_esr inside enable_output, on its way to
\* the next candidate, while the other thread waits for the lock.
C38_Witness ==
    \E t \in 1..MaxThreads, u \in 1..MaxThreads :
        /\ threads[t].op = "enable_output" /\ threads[t].pc = "locked"
        /\ threads[t].qi = 1
        /\ threads[t].old_timeout = ConnectTimeout
        /\ timeout = ConnectTimeout
        /\ threads[u].op = "get_device_state" /\ threads[u].pc = "enter"

\* C35: a sweep generation that built entries leaves the live playlist
\* equal to them when "replace" is set, and otherwise equal to the previous
\* playlist, entries and order untouched, followed by them.
C35_ReplaceOrAppend ==
    [][(last' = "generate_sweep_playlist" /\ generated' # <<>>) =>
          IF sweep_panel.replace
          THEN playlist' = generated'
          ELSE /\ Len(playlist') = Len(playlist) + Len(generated')
               /\ SubSeq(playlist', 1, Len(playlist)) = playlist
               /\ SubSeq(playlist', Len(playlist) + 1, Len(playlist')) =
                      generated']_vars

\* A sweep has been appended to a playlist that already held an entry with
\* another frequency than the sweep's first.
C35_Witness ==
    /\ last = "generate_sweep_playlist"
    /\ ~sweep_panel.replace
    /\ generated # <<>>
    /\ Len(playlist) > Len(generated)
    /\ playlist[1].frequency # generated[1].frequency

\* ----------------------------------------------- controller: failed calls
ModulationOps == {"set_modulation_fm", "set_modulation_am"}

\* C36 (as stated): a set_modulation_fm or set_modulation_am that has
\* returned False has left the tracked mode and the FM-initialized flag as
\* they were when it was entered.
C36_Original ==
    (op \in ModulationOps /\ Returned /\ ret = "False") =>
        /\ modulation_mode = mode0
        /\ fm_initialized = init0

\* The call in hand wrote the whole FM init sequence on the SMY02 branch
\* before it ended.
InitWritten ==
    /\ op = "set_modulation_fm" /\ NamesSmy02 /\ ~init0
    /\ Len(wire) > Len(FmInitCmds)

\* C36 (amended): such a call has left the tracked mode as it was; the
\* FM-initialized flag is as it was, except that it has become set when
\* the call wrote its whole init sequence before the failing write.
C36_FailedModulationKeepsMode ==
    (op \in ModulationOps /\ Returned /\ ret = "False") =>
        /\ modulation_mode = mode0
        /\ fm_initialized = (init0 \/ InitWritten)

\* set_modulation_fm has failed on its deviation write after a complete
\* init sequence: the flag is set, the mode is not FM.
C36_Witness ==
    /\ op = "set_modulation_fm" /\ Returned /\ ret = "False"
    /\ ~init0 /\ fm_initialized
    /\ modulation_mode = mode0
    /\ Len(wire) = Len(FmInitCmds) + 1


\* C37: when a scheduler cycle has skipped the bandwidth step for an entry
\* (its profile equals the remembered last profile), the last FM deviation
\* the instrument took is the deviation of that entry's profile.
C37_SkippedStepMatchesDevice ==
    band_skip # "None" => device_fm = Bandwidths(band_skip)

\* Every frequency of the list lies between lo and hi, both given in
\* hundredths of a MHz.
SweepWithin(list, lo, hi) ==
    \A i \in 1..Len(list) :
        10 * list[i].frequency >= lo /\ 10 * list[i].frequency <= hi

\* C39 (as stated): every frequency the sweep generator produced lies in
\* the closed interval between start and stop, ascending or descending.
C39_Original ==
    forward # <<>> =>
        LET p == sweep_panel
            lo == IF p.stop >= p.start THEN 10 * p.start ELSE 10 * p.stop
            hi == IF p.stop >= p.start THEN 10 * p.stop ELSE 10 * p.start
        IN SweepWithin(forward, lo, hi) /\ SweepWithin(generated, lo, hi)

\* C39 (amended): every frequency the sweep generator produced lies between
\* start and stop widened by a tenth of the step on the stop side: at most
\* stop + step / 10 ascending, at least stop - step / 10 descending.
C39_SweepWithinTolerance ==
    forward # <<>> =>
        LET p == sweep_panel
            lo == IF p.stop >= p.start THEN 10 * p.start
                  ELSE 10 * p.stop - p.step
            hi == IF p.stop >= p.start THEN 10 * p.stop + p.step
                  ELSE 10 * p.start
        IN SweepWithin(forward, lo, hi) /\ SweepWithin(generated, lo, hi)

\* A sweep has been generated whose last point lies beyond stop.
C39_Witness ==
    /\ last = "generate_sweep_playlist"
    /\ forward # <<>>
    /\ Len(generated) >= 2
    /\ Last(forward).frequency > sweep_panel.stop
    /\ sweep_panel.stop >= sweep_panel.start

\* The operations that set something in the instrument.
DeviceSetOps ==
    {"set_frequency", "set_amplitude", "enable_output", "disable_output",
     "set_modulation_fm", "set_modulation_am"}

\* C40: a setting operation called right after a connect() that returned
\* False, or right after disconnect(), returns failure at once and hands
\* nothing to the instrument.
C40_NoHandleAfterFailedConnect ==
    [][((\/ op = "connect" /\ Returned /\ ret = "False"
         \/ op = "disconnect" /\ Returned)
        /\ op' \in DeviceSetOps)
       => (~instrument /\ pc' = "done" /\ ret' = "False" /\ wire' = <<>>)]_vars

====================================================================
